---- MODULE Spec2Model ----
(***************************************************************************)
(* Model of the CPP code generator of the Blockly fork (generators/cpp.js   *)
(* and generators/cpp/*.js).                                                *)
(*                                                                          *)
(* Text is a sequence of tokens (strings).  Characters the code inspects    *)
(* one by one (digits, '-', '.', '(', ')', the characters quote_ escapes    *)
(* and the newline) are tokens of their own; constant template fragments    *)
(* are one token each.  Precedence values are in tenths, because            *)
(* ORDER_SCOPE is 0.1 in the source: ORDER_ADDITIVE = 5 is written 50.      *)
(*                                                                          *)
(* A value a rule uses more than once (a generated name, an adjusted index) *)
(* is handed to a local operator as a parameter, the way the source holds   *)
(* it in a local variable: it is computed once.                             *)
(***************************************************************************)
EXTENDS Integers, Sequences, FiniteSets, TLC

VARIABLES
    isInitialized,   \* CPP.isInitialized
    nameDB_,         \* CPP.nameDB_ : [made, db, used]
    definitions_,    \* CPP.definitions_ : set of [key, def]
    functionNames_,  \* CPP.functionNames_ : set of [key, def]
    ws,              \* the workspace handed to the last init
    pc,              \* the caller's position: "idle", "running", "called"
    aborted,         \* history: the run before this one ended in an error
    dirty,           \* history: the run before this one had registered a
                     \* helper, an import or a generated name when it ended
    run,             \* the blocks emitted so far in the current run
    blk,             \* the block (or call arguments) of the last operation
    out              \* what the last operation returned

vars == <<isInitialized, nameDB_, definitions_, functionNames_, ws, pc,
          aborted, dirty, run, blk, out>>

(***************************************************************************)
(* Bounds of the model.                                                     *)
(***************************************************************************)
MaxLen == 3        \* longest string handed to quote_
MaxDelta == 2      \* largest opt_delta handed to getAdjusted
MaxEmit == 2       \* most blocks emitted in one run of the lifecycle
MaxBranches == 2   \* most IF/DO pairs of a controls_if block
MaxStack == 4      \* frames of the call stack left to a walk along a chain
MaxIterations == 12  \* iterations an emitted counting loop is run for

(***************************************************************************)
(* Order of operation ENUMs, in tenths.                                     *)
(***************************************************************************)
ORDER_ATOMIC == 0
ORDER_SCOPE == 1
ORDER_UNARY_POSTFIX == 10
ORDER_UNARY_PREFIX == 20
ORDER_PTR_TO_MEM == 30
ORDER_MULTIPLICATIVE == 40
ORDER_ADDITIVE == 50
ORDER_SHIFT == 60
ORDER_RELATIONAL == 70
ORDER_EQUALITY == 80
ORDER_BITWISE_AND == 90
ORDER_BITWISE_XOR == 100
ORDER_BITWISE_OR == 110
ORDER_LOGICAL_AND == 120
ORDER_LOGICAL_OR == 130
ORDER_CONDITIONAL == 140
ORDER_ASSIGNMENT == 140
ORDER_COMMA == 150
ORDER_NONE == 990

Orders ==
    {ORDER_ATOMIC, ORDER_SCOPE, ORDER_UNARY_POSTFIX, ORDER_UNARY_PREFIX,
     ORDER_PTR_TO_MEM, ORDER_MULTIPLICATIVE, ORDER_ADDITIVE, ORDER_SHIFT,
     ORDER_RELATIONAL, ORDER_EQUALITY, ORDER_BITWISE_AND, ORDER_BITWISE_XOR,
     ORDER_BITWISE_OR, ORDER_LOGICAL_AND, ORDER_LOGICAL_OR, ORDER_CONDITIONAL,
     ORDER_ASSIGNMENT, ORDER_COMMA, ORDER_NONE}

\* An argument the caller left out (JavaScript undefined).
Undefined == 0 - 1

\* Math.floor on a precedence value held in tenths.
MathFloor(o) == (o \div 10) * 10

(***************************************************************************)
(* Text helpers.                                                            *)
(***************************************************************************)
Digits == {"0", "1", "2", "3", "4", "5", "6", "7", "8", "9"}

DigitVal(d) ==
    CASE d = "0" -> 0 [] d = "1" -> 1 [] d = "2" -> 2 [] d = "3" -> 3
      [] d = "4" -> 4 [] d = "5" -> 5 [] d = "6" -> 6 [] d = "7" -> 7
      [] d = "8" -> 8 [] d = "9" -> 9

DigitOf(n) ==
    CASE n = 0 -> "0" [] n = 1 -> "1" [] n = 2 -> "2" [] n = 3 -> "3"
      [] n = 4 -> "4" [] n = 5 -> "5" [] n = 6 -> "6" [] n = 7 -> "7"
      [] n = 8 -> "8" [] n = 9 -> "9"

\* Identifier tokens: each is a run of word characters (\w+).
Idents ==
    {"x", "i", "n", "a", "myList", "myText", "count", "repeat_end",
     "tmp_list", "tmp_x", "_start", "_end", "_inc", "item",
     "b", "c", "f", "g", "h", "k", "m", "p", "q", "s", "t", "v", "y",
     "getList", "getText"}

\* /^\w+$/ : a non-empty run of word characters.
IsWord(t) == Len(t) > 0 /\ \A k \in 1..Len(t) : t[k] \in Idents \cup Digits

AllDigits(t) == Len(t) > 0 /\ \A k \in 1..Len(t) : t[k] \in Digits

\* Blockly.utils.string.isNumber: /^\s*-?\d+(\.\d+)?\s*$/
isNumber(t) ==
    LET u == IF Len(t) > 0 /\ t[1] = "-" THEN Tail(t) ELSE t
    IN  \/ AllDigits(u)
        \/ \E k \in 1..Len(u) :
              /\ u[k] = "."
              /\ AllDigits(SubSeq(u, 1, k - 1))
              /\ AllDigits(SubSeq(u, k + 1, Len(u)))

RECURSIVE LeadingDigits(_)
LeadingDigits(t) ==
    IF Len(t) > 0 /\ Head(t) \in Digits
    THEN <<Head(t)>> \o LeadingDigits(Tail(t))
    ELSE <<>>

RECURSIVE DigitsValue(_)
DigitsValue(t) ==
    IF t = <<>> THEN 0
    ELSE 10 * DigitsValue(SubSeq(t, 1, Len(t) - 1)) + DigitVal(t[Len(t)])

\* parseInt(t, 10) on a text for which isNumber holds: an optional sign and
\* the leading run of digits; whatever follows the digits is dropped.
parseInt(t) ==
    IF Len(t) > 0 /\ t[1] = "-"
    THEN 0 - DigitsValue(LeadingDigits(Tail(t)))
    ELSE DigitsValue(LeadingDigits(t))

RECURSIVE NatToText(_)
NatToText(n) ==
    IF n < 10 THEN <<DigitOf(n)>>
    ELSE NatToText(n \div 10) \o <<DigitOf(n % 10)>>

\* String(n) for an integer n, as string concatenation converts a number.
NumToText(n) == IF n < 0 THEN <<"-">> \o NatToText(0 - n) ELSE NatToText(n)

Parens(t) == <<"(">> \o t \o <<")">>

\* Number of places where the text u occurs in the text t.
Occurrences(u, t) ==
    Cardinality({k \in 1..(Len(t) - Len(u) + 1) :
                    SubSeq(t, k, k + Len(u) - 1) = u})

(***************************************************************************)
(* A value slot of a block: unconnected, or connected to a child block      *)
(* whose rule returns [code, order].                                        *)
(***************************************************************************)
NoChild == [conn |-> FALSE, code |-> <<>>, order |-> ORDER_ATOMIC]
Child(code, order) == [conn |-> TRUE, code |-> code, order |-> order]

\* Generator.valueToCode: '' for an unconnected slot; the child's text,
\* in parentheses when the child's precedence is weaker than the required one.
valueToCode(child, outerOrder) ==
    IF ~child.conn THEN <<>>
    ELSE IF child.order > outerOrder THEN Parens(child.code)
    ELSE child.code

\* An a || b that keeps a, empty or not.
OrElse_Keep(t, dflt) == t

\* a || b on texts: the empty string is falsy.
OrElse(t, dflt) == IF t = <<>> THEN dflt ELSE t

(***************************************************************************)
(* CPP.quote_ and the decoding of a C++ string literal.                     *)
(***************************************************************************)
BS == "\\"
DQ == "\""
NL == "\n"
DOLLAR == "$"

\* The alphabet of the strings handed to quote_.
Alphabet == {BS, DQ, NL, DOLLAR, "a"}

RECURSIVE StringsOfLen(_)
StringsOfLen(n) ==
    IF n = 0 THEN {<<>>}
    ELSE {<<c>> \o s : c \in Alphabet, s \in StringsOfLen(n - 1)}

Strings == UNION {StringsOfLen(n) : n \in 0..MaxLen}

\* string.replace(/c/g, rep)
RECURSIVE ReplaceAll(_, _, _)
ReplaceAll(s, c, rep) ==
    IF s = <<>> THEN <<>>
    ELSE (IF Head(s) = c THEN rep ELSE <<Head(s)>>)
             \o ReplaceAll(Tail(s), c, rep)

\* Variant of quote_ that leaves backslashes as they are.
quote_KeepBackslash(string) ==
    LET s2 == ReplaceAll(string, NL, <<BS, NL>>)
        s3 == ReplaceAll(s2, DOLLAR, <<BS, DOLLAR>>)
        s4 == ReplaceAll(s3, DQ, <<BS, DQ>>)
    IN  <<DQ>> \o s4 \o <<DQ>>

quote_(string) ==
    LET s1 == ReplaceAll(string, BS, <<BS, BS>>)
        s2 == ReplaceAll(s1, NL, <<BS, NL>>)
        s3 == ReplaceAll(s2, DOLLAR, <<BS, DOLLAR>>)
        s4 == ReplaceAll(s3, DQ, <<BS, DQ>>)
    IN  <<DQ>> \o s4 \o <<DQ>>

\* Translation phase 2 of a C++ compiler: a backslash immediately followed
\* by a newline is deleted, splicing the two physical lines.
RECURSIVE SpliceLines(_)
SpliceLines(s) ==
    IF Len(s) >= 2 /\ s[1] = BS /\ s[2] = NL
    THEN SpliceLines(SubSeq(s, 3, Len(s)))
    ELSE IF s = <<>> THEN <<>>
    ELSE <<Head(s)>> \o SpliceLines(Tail(s))

IllFormed == <<"ill-formed">>

\* The characters of a string-literal body after escape sequences are
\* replaced: \\ \" \$ give the escaped character, \n gives a newline; an
\* unescaped quote or newline, or a lone trailing backslash, ends the literal
\* early and the program is ill-formed.
RECURSIVE Unescape(_)
Unescape(s) ==
    IF s = <<>> THEN <<>>
    ELSE IF s[1] = BS
    THEN IF Len(s) = 1 THEN IllFormed
         ELSE LET c == IF s[2] = "n" THEN NL ELSE s[2]
                  rest == Unescape(SubSeq(s, 3, Len(s)))
              IN  IF s[2] = NL \/ rest = IllFormed THEN IllFormed
                  ELSE <<c>> \o rest
    ELSE IF s[1] \in {DQ, NL} THEN IllFormed
    ELSE LET rest == Unescape(Tail(s))
         IN  IF rest = IllFormed THEN IllFormed ELSE <<s[1]>> \o rest

\* What a C++ compiler reads from the literal lit.
DecodeLiteral(lit) ==
    LET s == SpliceLines(lit)
    IN  IF Len(s) < 2 \/ s[1] # DQ \/ s[Len(s)] # DQ THEN IllFormed
        ELSE Unescape(SubSeq(s, 2, Len(s) - 1))

(***************************************************************************)
(* CPP.getAdjusted.  at is the slot's child, oneBasedIndex the option of    *)
(* the block's workspace.  The result is a number (isNum) or a text.        *)
(***************************************************************************)
NumResult(n) == [isNum |-> TRUE, num |-> n, code |-> <<>>]
TextResult(t) == [isNum |-> FALSE, num |-> 0, code |-> t]

\* The result as it appears when a rule concatenates it into its text.
AtText(r) == IF r.isNum THEN NumToText(r.num) ELSE r.code

\* let order = opt_order || this.ORDER_NONE
OrderOrNone(opt_order) ==
    IF opt_order = Undefined \/ opt_order = 0 THEN ORDER_NONE ELSE opt_order

\* delta after `opt_delta || 0` and the decrement under one-based indexing
EffectiveDelta(oneBasedIndex, opt_delta) ==
    LET delta0 == IF opt_delta = Undefined THEN 0 ELSE opt_delta
    IN  IF oneBasedIndex THEN delta0 - 1 ELSE delta0

\* outerOrder: the precedence at which the operand is requested
AdjustedOuterOrder(delta, opt_negate, order) ==
    IF delta # 0 THEN ORDER_ADDITIVE
    ELSE IF opt_negate THEN ORDER_UNARY_PREFIX
    ELSE order

\* innerOrder, where Undefined stands for the unassigned variable
AdjustedInnerOrder(delta, opt_negate) ==
    IF delta # 0 THEN ORDER_ADDITIVE
    ELSE IF opt_negate THEN ORDER_UNARY_PREFIX
    ELSE Undefined

\* Variant of NeedsParens that wraps only below additive precedence.
NeedsParens_Strict(innerOrder, order) ==
    /\ innerOrder # Undefined
    /\ MathFloor(order) > MathFloor(innerOrder)

\* innerOrder = Math.floor(innerOrder); order = Math.floor(order);
\* innerOrder && order >= innerOrder   (Math.floor(undefined) is NaN: falsy)
NeedsParens(innerOrder, order) ==
    /\ innerOrder # Undefined
    /\ MathFloor(innerOrder) # 0
    /\ MathFloor(order) >= MathFloor(innerOrder)

\* at = parseInt(at, 10) + delta; if (opt_negate) at = -at
FoldLiteral(at, delta, opt_negate) ==
    LET n == parseInt(at) + delta
    IN  IF opt_negate THEN 0 - n ELSE n

getAdjusted(child, oneBasedIndex, opt_delta, opt_negate, opt_order) ==
    LET defaultAtIndex == IF oneBasedIndex THEN <<"1">> ELSE <<"0">>
        Wrapped(at2, innerOrder, order) ==
            TextResult(IF NeedsParens(innerOrder, order)
                       THEN Parens(at2) ELSE at2)
        Negated(at1, delta, order) ==
            Wrapped(IF opt_negate
                    THEN IF delta # 0 THEN <<"-", "(">> \o at1 \o <<")">>
                         ELSE <<"-">> \o at1
                    ELSE at1,
                    AdjustedInnerOrder(delta, opt_negate), order)
        Adjusted(at, delta, order) ==
            IF isNumber(at)
            THEN NumResult(FoldLiteral(at, delta, opt_negate))
            ELSE Negated(IF delta > 0
                         THEN at \o <<" + ">> \o NumToText(delta)
                         ELSE IF delta < 0
                         THEN at \o <<" - ">> \o NumToText(0 - delta)
                         ELSE at,
                         delta, order)
        Requested(delta, order) ==
            Adjusted(OrElse(valueToCode(child,
                                AdjustedOuterOrder(delta, opt_negate, order)),
                            defaultAtIndex),
                     delta, order)
    IN  Requested(EffectiveDelta(oneBasedIndex, opt_delta),
                  OrderOrNone(opt_order))

(***************************************************************************)
(* Blockly.Names: the name table.  db holds [kind, id, name] for every      *)
(* logical identifier that was given a name, used holds the spelling of     *)
(* every name handed out.  A name is a text: the identifier token, then     *)
(* the digits of the suffix that made it distinct.                          *)
(***************************************************************************)
ReservedWords ==
    {"alignas", "alignof", "and", "and_eq", "asm", "atomic_cancel",
     "atomic_commit", "atomic_noexcept", "aotu", "bitand", "bitor", "bool",
     "break", "case", "catch", "char", "char8_t", "char16_t", "char32_t",
     "class", "compl", "concept", "const", "consteval", "constexpr",
     "constinit", "const_cast", "continue", "co_await", "co_return",
     "co_yield", "decltype", "default", "delete", "do", "double",
     "dynamic_cast", "else", "enum", "explicit", "export", "extern", "false",
     "float", "for", "friend", "goto", "if", "inline", "int", "long",
     "mutable", "namespace", "new", "noexcept", "not", "not_eq", "nullptr",
     "operator", "or", "or_eq", "private", "protected", "public", "reflexpr",
     "register", "reinterpret_cast", "requires", "return", "short", "signed",
     "sizeof", "static", "static_assert", "static_cast", "struct", "switch",
     "synchronized", "template", "this", "thread_local", "throw", "true",
     "try", "typedef", "typeid", "typename", "union", "unsigned", "using",
     "virtual", "void", "volatile", "wchar_t", "while", "xor", "xor_eq",
     "cin", "cout", "printf", "malloc", "free", "string", "std",
     "Html", "Math"}

\* The characters of a text, whatever the pieces it was assembled from: two
\* names collide when they are the same string of characters.
RECURSIVE Spelling(_)
Spelling(t) == IF t = <<>> THEN "" ELSE Head(t) \o Spelling(Tail(t))

IsReserved(name) == Spelling(name) \in ReservedWords

NoDB == [made |-> FALSE, db |-> {}, used |-> {}]
EmptyDB == [made |-> TRUE, db |-> {}, used |-> {}]

\* Names.reset
ResetDB(ndb) == [ndb EXCEPT !.db = {}, !.used = {}]

\* The first of name, name2, name3, ... that is neither handed out already
\* nor reserved.
RECURSIVE DistinctFrom(_, _, _)
DistinctFrom(ndb, name, i) ==
    LET Try(cand) ==
            IF Spelling(cand) \in ndb.used \/ IsReserved(cand)
            THEN DistinctFrom(ndb, name, i + 1)
            ELSE cand
    IN  Try(IF i = 1 THEN name ELSE name \o NumToText(i))

\* Names.getDistinctName: [db, name]
getDistinctName(ndb, name) ==
    LET Taken(nm) ==
            [db |-> [ndb EXCEPT !.used = @ \cup {Spelling(nm)}], name |-> nm]
    IN  Taken(DistinctFrom(ndb, name, 1))

\* Names.getName: [db, name]
getName(ndb, id, kind) ==
    IF \E e \in ndb.db : e.kind = kind /\ e.id = id
    THEN [db |-> ndb,
          name |-> (CHOOSE e \in ndb.db : e.kind = kind /\ e.id = id).name]
    ELSE LET Recorded(r) ==
                 [db |-> [r.db EXCEPT !.db =
                            @ \cup {[kind |-> kind, id |-> id,
                                     name |-> r.name]}],
                  name |-> r.name]
         IN  Recorded(getDistinctName(ndb, <<id>>))

\* getName for each identifier of a list, in order: [db, names]
RECURSIVE getNames(_, _, _)
getNames(ndb, ids, kind) ==
    IF ids = <<>> THEN [db |-> ndb, names |-> <<>>]
    ELSE LET Cons(r, rest) ==
                 [db |-> rest.db, names |-> <<r.name>> \o rest.names]
             Rest(r) == Cons(r, getNames(r.db, Tail(ids), kind))
         IN  Rest(getName(ndb, Head(ids), kind))

\* array.join(sep) on a list of texts
RECURSIVE Join(_, _)
Join(texts, sep) ==
    IF texts = <<>> THEN <<>>
    ELSE IF Len(texts) = 1 THEN texts[1]
    ELSE texts[1] \o sep \o Join(Tail(texts), sep)

(***************************************************************************)
(* The generator's per-run registry, as one record, so that an operation    *)
(* is a function from the registry before it to the registry after it.      *)
(***************************************************************************)
Registry(init, ndb, defs, fns) ==
    [isInitialized |-> init, nameDB_ |-> ndb, definitions_ |-> defs,
     functionNames_ |-> fns]

\* The generator as constructed, before any init.
Constructed == Registry(FALSE, NoDB, {}, {})

\* A JavaScript object used as a dictionary: a set of [key, def], one per key.
\* obj[key] = value
Put(obj, key, value) ==
    {e \in obj : e.key # key} \cup {[key |-> key, def |-> value]}

\* key in obj
Has(obj, key) == \E e \in obj : e.key = key

\* obj[key]
Get(obj, key) == (CHOOSE e \in obj : e.key = key).def

Keys(obj) == {e.key : e \in obj}

\* The workspaces handed to init.
Workspaces ==
    {[variables |-> v, used |-> u, devVars |-> d, procedures |-> p] :
        v \in {<<"x">>}, u \in {<<>>, <<"x">>},
        d \in {<<>>}, p \in {<<>>}}
    \cup {[variables |-> <<"x", "count">>, used |-> <<"count">>,
           devVars |-> <<"item">>, procedures |-> <<"n">>],
          [variables |-> <<>>, used |-> <<>>, devVars |-> <<>>,
           procedures |-> <<>>]}

\* Variant of CPP.init that does not reset a name table it finds.
CPP_init_KeepNames(g, workspace) ==
    LET ndb0 == IF ~g.nameDB_.made THEN EmptyDB ELSE g.nameDB_
        pv == getNames(ndb0, workspace.variables, "VARIABLE")
        pp == getNames(pv.db, workspace.procedures, "PROCEDURE")
        Declare(ndb, defvars) ==
            Registry(TRUE, ndb,
                     IF Len(defvars) > 0
                     THEN Put({}, "variables",
                              <<"int ">> \o Join(defvars, <<", ">>)
                                  \o <<";">>)
                     ELSE {},
                     {})
        UserVars(dv, uv) == Declare(uv.db, dv.names \o uv.names)
        DevVars(dv) ==
            UserVars(dv, getNames(dv.db, workspace.used, "VARIABLE"))
    IN  DevVars(getNames(pp.db, workspace.devVars, "DEVELOPER_VARIABLE"))

\* Variant of CPP.init that leaves out the call of the base class's init,
\* which makes the two dictionaries anew.
CPP_init_NoBase(g, workspace) ==
    LET ndb0 == IF ~g.nameDB_.made THEN EmptyDB ELSE ResetDB(g.nameDB_)
        pv == getNames(ndb0, workspace.variables, "VARIABLE")
        pp == getNames(pv.db, workspace.procedures, "PROCEDURE")
        Declare(ndb, defvars) ==
            Registry(TRUE, ndb,
                     IF Len(defvars) > 0
                     THEN Put(g.definitions_, "variables",
                              <<"int ">> \o Join(defvars, <<", ">>)
                                  \o <<";">>)
                     ELSE g.definitions_,
                     g.functionNames_)
        UserVars(dv, uv) == Declare(uv.db, dv.names \o uv.names)
        DevVars(dv) ==
            UserVars(dv, getNames(dv.db, workspace.used, "VARIABLE"))
    IN  DevVars(getNames(pp.db, workspace.devVars, "DEVELOPER_VARIABLE"))

\* CPP.init
CPP_init(g, workspace) ==
    LET ndb0 == IF ~g.nameDB_.made THEN EmptyDB ELSE ResetDB(g.nameDB_)
        pv == getNames(ndb0, workspace.variables, "VARIABLE")
        pp == getNames(pv.db, workspace.procedures, "PROCEDURE")
        Declare(ndb, defvars) ==
            Registry(TRUE, ndb,
                     IF Len(defvars) > 0
                     THEN Put({}, "variables",
                              <<"int ">> \o Join(defvars, <<", ">>)
                                  \o <<";">>)
                     ELSE {},
                     {})
        UserVars(dv, uv) == Declare(uv.db, dv.names \o uv.names)
        DevVars(dv) ==
            UserVars(dv, getNames(dv.db, workspace.used, "VARIABLE"))
    IN  DevVars(getNames(pp.db, workspace.devVars, "DEVELOPER_VARIABLE"))

INDENT == "  "

\* Generator.prefixLines: prefix + text.replace(/(?!\n$)\n/g, '\n' + prefix)
RECURSIVE PrefixInner(_, _)
PrefixInner(text, prefix) ==
    IF text = <<>> THEN <<>>
    ELSE IF Head(text) = NL /\ Len(text) > 1
    THEN <<NL, prefix>> \o PrefixInner(Tail(text), prefix)
    ELSE <<Head(text)>> \o PrefixInner(Tail(text), prefix)

prefixLines(text, prefix) == <<prefix>> \o PrefixInner(text, prefix)

\* Variant of CPP.finish that leaves the lines of the program as they are.
CPP_finish_Flat(g, code) ==
    [g |-> Registry(FALSE, ResetDB(g.nameDB_), {}, {}),
     code |-> <<"int main() {", NL>> \o code
                  \o <<INDENT, "return 0;", NL, "}">>]

\* CPP.finish: [g, code]
CPP_finish(g, code) ==
    LET code1 == IF code # <<>> THEN prefixLines(code, INDENT) ELSE code
        code2 == <<"int main() {", NL>> \o code1
                     \o <<INDENT, "return 0;", NL, "}">>
    IN  [g |-> Registry(FALSE, ResetDB(g.nameDB_), {}, {}),
         code |-> code2]

(***************************************************************************)
(* What a rule returns: [code, order] for a value block, a text for a       *)
(* statement block, or the error it throws.  A rule is an operator from     *)
(* the registry and the block to [g, res].                                  *)
(***************************************************************************)
Value(code, order) == [kind |-> "value", code |-> code, order |-> order]
Stmt(code) == [kind |-> "stmt", code |-> code, order |-> 0]
Err(msg) == [kind |-> "error", code |-> <<msg>>, order |-> 0]
NoResult == [kind |-> "none", code |-> <<>>, order |-> 0]

Ret(g, res) == [g |-> g, res |-> res]

\* CPP.definitions_[key] = def
Define(g, key, def) == [g EXCEPT !.definitions_ = Put(@, key, def)]

\* The token standing for FUNCTION_NAME_PLACEHOLDER_ in a helper's template.
PLACEHOLDER == "{placeholder}"

\* A provideFunction_ that registers the helper anew at every request.
provideFunction_Anew(g, desiredName, code) ==
    LET Provided(r) ==
            [g |-> [g EXCEPT
                       !.nameDB_ = r.db,
                       !.functionNames_ = Put(@, desiredName, r.name),
                       !.definitions_ =
                           Put(@, desiredName,
                               ReplaceAll(code, PLACEHOLDER, r.name))],
             name |-> r.name]
    IN  Provided(getDistinctName(g.nameDB_, <<desiredName>>))

\* Generator.provideFunction_: [g, name]
provideFunction_(g, desiredName, code) ==
    IF Has(g.functionNames_, desiredName)
    THEN [g |-> g, name |-> Get(g.functionNames_, desiredName)]
    ELSE LET Provided(r) ==
                 [g |-> [g EXCEPT
                            !.nameDB_ = r.db,
                            !.functionNames_ = Put(@, desiredName, r.name),
                            !.definitions_ =
                                Put(@, desiredName,
                                    ReplaceAll(code, PLACEHOLDER, r.name))],
                  name |-> r.name]
         IN  Provided(getDistinctName(g.nameDB_, <<desiredName>>))

\* [g, name] with the name table of g advanced by getDistinctName
Distinct(g, name) ==
    LET Advanced(r) == [g |-> [g EXCEPT !.nameDB_ = r.db], name |-> r.name]
    IN  Advanced(getDistinctName(g.nameDB_, name))

\* [g, name] with the name table of g advanced by getName
Named(g, id, kind) ==
    LET Advanced(r) == [g |-> [g EXCEPT !.nameDB_ = r.db], name |-> r.name]
    IN  Advanced(getName(g.nameDB_, id, kind))

\* Generator.statementToCode: the text of the chain in a statement slot,
\* '' when nothing is connected.  A slot holds the chain's emitted text.
statementToCode(slot) == slot

\* Generator.injectId: the hook's text with %1 replaced by the block's id.
injectId(msg, id) == ReplaceAll(msg, "%1", <<"'", id, "'">>)

\* Generator.addLoopTrap with INFINITE_LOOP_TRAP unset.
addLoopTrap(branch) == branch

DART_MATH == <<"import 'dart:math' as Math;">>

(***************************************************************************)
(* generators/cpp/logic.js                                                  *)
(***************************************************************************)
\* The statement suffix hook as it is put at the head of a branch.
BranchSuffix(b) ==
    IF b.STATEMENT_SUFFIX # <<>>
    THEN prefixLines(injectId(b.STATEMENT_SUFFIX, b.id), INDENT)
    ELSE <<>>

\* Variant of IfBranch that puts the closing brace and the next keyword on
\* lines of their own.
IfBranch_OwnLines(b, n) ==
    (IF n > 1 THEN <<NL, "else ">> ELSE <<>>)
        \o <<"if (">>
        \o OrElse(valueToCode(b.IF_[n], ORDER_NONE), <<"false">>)
        \o <<") {", NL>>
        \o BranchSuffix(b) \o statementToCode(b.DO[n]) \o <<NL, "}">>

\* One pass of the do-while loop: the text added for the pair IFn/DOn,
\* n counted from 1.
IfBranch(b, n) ==
    (IF n > 1 THEN <<"else ">> ELSE <<>>)
        \o <<"if (">>
        \o OrElse(valueToCode(b.IF_[n], ORDER_NONE), <<"false">>)
        \o <<") {", NL>>
        \o BranchSuffix(b) \o statementToCode(b.DO[n]) \o <<"}">>

\* The text added for the ELSE input.
ElseBranch(b) ==
    <<" else {", NL>> \o BranchSuffix(b) \o statementToCode(b.ELSE_)
        \o <<"}">>

controls_if(g, b) ==
    LET code0 == IF b.STATEMENT_PREFIX # <<>>
                 THEN injectId(b.STATEMENT_PREFIX, b.id) ELSE <<>>
        code1 == code0 \o Join([n \in 1..Len(b.IF_) |-> IfBranch(b, n)], <<>>)
        code2 == IF b.hasElse \/ b.STATEMENT_SUFFIX # <<>>
                 THEN code1 \o ElseBranch(b) ELSE code1
    IN  Ret(g, Stmt(code2 \o <<NL>>))

\* Variant of logic_compare that asks for its operands at ORDER_NONE, so that
\* no operand is ever parenthesised.
logic_compare_AtNone(g, b) ==
    LET known == b.OP \in {"EQ", "NEQ", "LT", "LTE", "GT", "GTE"}
        operator ==
            CASE b.OP = "EQ" -> "==" [] b.OP = "NEQ" -> "!="
              [] b.OP = "LT" -> "<" [] b.OP = "LTE" -> "<="
              [] b.OP = "GT" -> ">" [] b.OP = "GTE" -> ">="
              [] OTHER -> "undefined"
        order == IF known /\ operator \in {"==", "!="}
                 THEN ORDER_EQUALITY ELSE ORDER_RELATIONAL
        argument0 == OrElse(valueToCode(b.A, ORDER_NONE), <<"0">>)
        argument1 == OrElse(valueToCode(b.B, ORDER_NONE), <<"0">>)
    IN  Ret(g, Value(argument0 \o <<" ", operator, " ">> \o argument1, order))

logic_compare(g, b) ==
    LET known == b.OP \in {"EQ", "NEQ", "LT", "LTE", "GT", "GTE"}
        operator ==
            CASE b.OP = "EQ" -> "==" [] b.OP = "NEQ" -> "!="
              [] b.OP = "LT" -> "<" [] b.OP = "LTE" -> "<="
              [] b.OP = "GT" -> ">" [] b.OP = "GTE" -> ">="
              [] OTHER -> "undefined"
        order == IF known /\ operator \in {"==", "!="}
                 THEN ORDER_EQUALITY ELSE ORDER_RELATIONAL
        argument0 == OrElse(valueToCode(b.A, order), <<"0">>)
        argument1 == OrElse(valueToCode(b.B, order), <<"0">>)
    IN  Ret(g, Value(argument0 \o <<" ", operator, " ">> \o argument1, order))

\* Variant of logic_operation that puts 'false' in an empty slot whatever
\* the operator.
logic_operation_FalseDefault(g, b) ==
    LET operator == IF b.OP = "AND" THEN "&&" ELSE "||"
        order == IF operator = "&&" THEN ORDER_LOGICAL_AND
                 ELSE ORDER_LOGICAL_OR
        argument0 == OrElse(valueToCode(b.A, order), <<"false">>)
        argument1 == OrElse(valueToCode(b.B, order), <<"false">>)
    IN  Ret(g, Value(argument0 \o <<" ", operator, " ">> \o argument1, order))

logic_operation(g, b) ==
    LET operator == IF b.OP = "AND" THEN "&&" ELSE "||"
        order == IF operator = "&&" THEN ORDER_LOGICAL_AND
                 ELSE ORDER_LOGICAL_OR
        a0 == valueToCode(b.A, order)
        a1 == valueToCode(b.B, order)
        defaultArgument == IF operator = "&&" THEN <<"true">> ELSE <<"false">>
        argument0 == IF a0 = <<>> /\ a1 = <<>> THEN <<"false">>
                     ELSE OrElse(a0, defaultArgument)
        argument1 == IF a0 = <<>> /\ a1 = <<>> THEN <<"false">>
                     ELSE OrElse(a1, defaultArgument)
    IN  Ret(g, Value(argument0 \o <<" ", operator, " ">> \o argument1, order))

(***************************************************************************)
(* generators/cpp/text.js                                                   *)
(***************************************************************************)
\* Variant of FieldOr without the default.
FieldOr_Given(v, dflt) == v

\* block.getFieldValue(name) || dflt : an absent field reads as "".
FieldOr(v, dflt) == IF v = "" THEN dflt ELSE v

\* CPP['text']
text(g, b) == Ret(g, Value(quote_(b.TEXT), ORDER_ATOMIC))

\* /^'?\w+'?$/
IsQuotedWord(t) ==
    LET t1 == IF Len(t) > 0 /\ t[1] = "'" THEN Tail(t) ELSE t
        t2 == IF Len(t1) > 0 /\ t1[Len(t1)] = "'"
              THEN SubSeq(t1, 1, Len(t1) - 1) ELSE t1
    IN  IsWord(t2)

text_charAt(g, b) ==
    LET where == FieldOr(b.WHERE, "FROM_START")
        textOrder == IF where \in {"FIRST", "FROM_START"}
                     THEN ORDER_UNARY_POSTFIX ELSE ORDER_NONE
        At(opt_delta) ==
            AtText(getAdjusted(b.AT, b.oneBasedIndex, opt_delta, FALSE,
                               Undefined))
        Called(f, args) ==
            Ret(f.g, Value(f.name \o <<"(">> \o args \o <<")">>,
                           ORDER_UNARY_POSTFIX))
        Indexed(txt) ==
            CASE where = "FIRST" ->
                   Ret(g, Value(txt \o <<"[0]">>, ORDER_UNARY_POSTFIX))
              [] where = "FROM_START" ->
                   Ret(g, Value(txt \o <<"[">> \o At(Undefined) \o <<"]">>,
                                ORDER_UNARY_POSTFIX))
              [] where \in {"LAST", "FROM_END"} ->
                   Called(provideFunction_(g, "text_get_from_end",
                              <<"String ", PLACEHOLDER,
                                "(String text, num x) {...}">>),
                          txt \o <<", ">> \o At(1))
              [] where = "RANDOM" ->
                   Called(provideFunction_(
                              Define(g, "import_dart_math", DART_MATH),
                              "text_random_letter",
                              <<"String ", PLACEHOLDER,
                                "(String text) {...}">>),
                          txt)
              [] OTHER -> Ret(g, Err("Unhandled option (text_charAt)."))
    IN  Indexed(OrElse(valueToCode(b.VALUE, textOrder), <<"''">>))

text_getSubstring(g, b) ==
    LET where1 == b.WHERE1
        where2 == b.WHERE2
        requiresLengthCall == where1 # "FROM_END" /\ where2 = "FROM_START"
        textOrder == IF requiresLengthCall THEN ORDER_UNARY_POSTFIX
                     ELSE ORDER_NONE
        Adj(slot, d, o) ==
            AtText(getAdjusted(slot, b.oneBasedIndex, d, FALSE, o))
        At1(txt) ==
            CASE where1 = "FROM_START" -> Adj(b.AT1, Undefined, Undefined)
              [] where1 = "FROM_END" ->
                   txt \o <<".length - ">> \o Adj(b.AT1, 1, ORDER_ADDITIVE)
              [] OTHER -> <<"0">>
        At2(txt) ==
            CASE where2 = "FROM_START" -> Adj(b.AT2, 1, Undefined)
              [] where2 = "FROM_END" ->
                   txt \o <<".length - ">> \o Adj(b.AT2, 0, ORDER_ADDITIVE)
              [] OTHER -> <<>>
        Called(f, args) ==
            Ret(f.g, Value(f.name \o <<"(">> \o args \o <<")">>,
                           ORDER_UNARY_POSTFIX))
        Substring(txt) ==
            IF where1 = "FIRST" /\ where2 = "LAST"
            THEN Ret(g, Value(txt, ORDER_NONE))
            ELSE IF IsQuotedWord(txt) \/ requiresLengthCall
            THEN IF where1 \notin {"FROM_START", "FROM_END", "FIRST"}
                      \/ where2 \notin {"FROM_START", "FROM_END", "LAST"}
                 THEN Ret(g, Err("Unhandled option (text_getSubstring)."))
                 ELSE Ret(g, Value(txt \o <<".substring(">> \o At1(txt)
                                       \o (IF where2 = "LAST" THEN <<>>
                                           ELSE <<", ">> \o At2(txt))
                                       \o <<")">>,
                                   ORDER_UNARY_POSTFIX))
            ELSE Called(provideFunction_(g, "text_get_substring",
                            <<"String ", PLACEHOLDER,
                              "(String text, String where1, num at1, ",
                              "String where2, num at2) {...}">>),
                        txt \o <<", '", where1, "', ">>
                            \o Adj(b.AT1, Undefined, Undefined)
                            \o <<", '", where2, "', ">>
                            \o Adj(b.AT2, Undefined, Undefined))
    IN  Substring(OrElse(valueToCode(b.STRING, textOrder), <<"''">>))

text_changeCase(g, b) ==
    LET operator == CASE b.CASE_ = "UPPERCASE" -> <<".toUpperCase()">>
                      [] b.CASE_ = "LOWERCASE" -> <<".toLowerCase()">>
                      [] OTHER -> <<>>
        textOrder == IF operator # <<>> THEN ORDER_UNARY_POSTFIX
                     ELSE ORDER_NONE
        Called(f, args) ==
            Ret(f.g, Value(f.name \o <<"(">> \o args \o <<")">>,
                           ORDER_UNARY_POSTFIX))
        Cased(txt) ==
            IF operator # <<>>
            THEN Ret(g, Value(txt \o operator, ORDER_UNARY_POSTFIX))
            ELSE Called(provideFunction_(g, "text_toTitleCase",
                            <<"String ", PLACEHOLDER, "(String str) {...}">>),
                        txt)
    IN  Cased(OrElse(valueToCode(b.TEXT, textOrder), <<"''">>))

text_append(g, b) ==
    LET value == OrElse(valueToCode(b.TEXT, ORDER_NONE), <<"''">>)
        Appended(varName) ==
            Ret(varName.g,
                Stmt(varName.name \o <<" = [">> \o varName.name \o <<", ">>
                         \o value \o <<"].join();", NL>>))
    IN  Appended(Named(g, b.VAR, "VARIABLE"))

\* A text_print whose statement does not end its line.
text_print_Unended(g, b) ==
    LET msg == OrElse(valueToCode(b.TEXT, ORDER_NONE), <<"''">>)
    IN  Ret(g, Stmt(<<"print(">> \o msg \o <<");">>))

text_print(g, b) ==
    LET msg == OrElse(valueToCode(b.TEXT, ORDER_NONE), <<"''">>)
    IN  Ret(g, Stmt(<<"print(">> \o msg \o <<");", NL>>))

text_trim(g, b) ==
    LET operator ==
            CASE b.MODE = "LEFT" ->
                   <<".replaceFirst(new RegExp(r'^\\s+'), '')">>
              [] b.MODE = "RIGHT" ->
                   <<".replaceFirst(new RegExp(r'\\s+$'), '')">>
              [] b.MODE = "BOTH" -> <<".trim()">>
              [] OTHER -> <<"undefined">>
        txt == OrElse(valueToCode(b.TEXT, ORDER_UNARY_POSTFIX), <<"''">>)
    IN  Ret(g, Value(txt \o operator, ORDER_UNARY_POSTFIX))

(***************************************************************************)
(* generators/cpp/math.js                                                   *)
(***************************************************************************)
math_arithmetic(g, b) ==
    LET operator == CASE b.OP = "ADD" -> <<" + ">>
                      [] b.OP = "MINUS" -> <<" - ">>
                      [] b.OP = "MULTIPLY" -> <<" * ">>
                      [] b.OP = "DIVIDE" -> <<" / ">>
                      [] OTHER -> <<>>
        order == CASE b.OP \in {"ADD", "MINUS"} -> ORDER_ADDITIVE
                   [] b.OP \in {"MULTIPLY", "DIVIDE"} -> ORDER_MULTIPLICATIVE
                   [] OTHER -> ORDER_NONE
        argument0 == OrElse(valueToCode(b.A, order), <<"0">>)
        argument1 == OrElse(valueToCode(b.B, order), <<"0">>)
    IN  IF b.OP \notin {"ADD", "MINUS", "MULTIPLY", "DIVIDE", "POWER"}
        THEN Ret(g, Err("TypeError: tuple is undefined"))
        ELSE IF operator = <<>>
        THEN Ret(Define(g, "import_dart_math", DART_MATH),
                 Value(<<"Math.pow(">> \o argument0 \o <<", ">> \o argument1
                           \o <<")">>,
                       ORDER_UNARY_POSTFIX))
        ELSE Ret(g, Value(argument0 \o operator \o argument1, order))

math_single(g, b) ==
    LET operator == b.OP
        g1 == Define(g, "import_dart_math", DART_MATH)
        argOrder == IF operator \in {"ABS", "ROUND", "ROUNDUP", "ROUNDDOWN"}
                    THEN ORDER_UNARY_POSTFIX
                    ELSE IF operator \in {"SIN", "COS", "TAN"}
                    THEN ORDER_MULTIPLICATIVE
                    ELSE ORDER_NONE
        arg == OrElse(valueToCode(b.NUM, argOrder), <<"0">>)
        Call(fn, tail) == <<fn>> \o arg \o <<tail>>
    IN  IF operator = "NEG"
        THEN LET a == OrElse(valueToCode(b.NUM, ORDER_UNARY_PREFIX), <<"0">>)
                 a1 == IF a[1] = "-" THEN <<" ">> \o a ELSE a
             IN  Ret(g, Value(<<"-">> \o a1, ORDER_UNARY_PREFIX))
        ELSE CASE operator = "ABS" ->
                    Ret(g1, Value(arg \o <<".abs()">>, ORDER_UNARY_POSTFIX))
               [] operator = "ROOT" ->
                    Ret(g1, Value(Call("Math.sqrt(", ")"), ORDER_UNARY_POSTFIX))
               [] operator = "LN" ->
                    Ret(g1, Value(Call("Math.log(", ")"), ORDER_UNARY_POSTFIX))
               [] operator = "EXP" ->
                    Ret(g1, Value(Call("Math.exp(", ")"), ORDER_UNARY_POSTFIX))
               [] operator = "POW10" ->
                    Ret(g1, Value(Call("Math.pow(10,", ")"),
                                  ORDER_UNARY_POSTFIX))
               [] operator = "ROUND" ->
                    Ret(g1, Value(arg \o <<".round()">>, ORDER_UNARY_POSTFIX))
               [] operator = "ROUNDUP" ->
                    Ret(g1, Value(arg \o <<".ceil()">>, ORDER_UNARY_POSTFIX))
               [] operator = "ROUNDDOWN" ->
                    Ret(g1, Value(arg \o <<".floor()">>, ORDER_UNARY_POSTFIX))
               [] operator = "SIN" ->
                    Ret(g1, Value(Call("Math.sin(", " / 180 * Math.pi)"),
                                  ORDER_UNARY_POSTFIX))
               [] operator = "COS" ->
                    Ret(g1, Value(Call("Math.cos(", " / 180 * Math.pi)"),
                                  ORDER_UNARY_POSTFIX))
               [] operator = "TAN" ->
                    Ret(g1, Value(Call("Math.tan(", " / 180 * Math.pi)"),
                                  ORDER_UNARY_POSTFIX))
               [] operator = "LOG10" ->
                    Ret(g1, Value(Call("Math.log(", ") / Math.log(10)"),
                                  ORDER_MULTIPLICATIVE))
               [] operator = "ASIN" ->
                    Ret(g1, Value(Call("Math.asin(", ") / Math.pi * 180"),
                                  ORDER_MULTIPLICATIVE))
               [] operator = "ACOS" ->
                    Ret(g1, Value(Call("Math.acos(", ") / Math.pi * 180"),
                                  ORDER_MULTIPLICATIVE))
               [] operator = "ATAN" ->
                    Ret(g1, Value(Call("Math.atan(", ") / Math.pi * 180"),
                                  ORDER_MULTIPLICATIVE))
               [] OTHER ->
                    Ret(g1, Err("Unknown math operator: " \o operator))

\* The table of math_constant in generators/cpp/math.js.
MathConstants ==
    [PI |-> Value(<<"Math.pi">>, ORDER_UNARY_POSTFIX),
     E |-> Value(<<"Math.e">>, ORDER_UNARY_POSTFIX),
     GOLDEN_RATIO |->
         Value(<<"(", "1", " + ", "Math.sqrt(5)", ")", " / ", "2">>,
               ORDER_MULTIPLICATIVE),
     SQRT2 |-> Value(<<"Math.sqrt2">>, ORDER_UNARY_POSTFIX),
     SQRT1_2 |-> Value(<<"Math.sqrt1_2">>, ORDER_UNARY_POSTFIX),
     INFINITY |-> Value(<<"double.infinity">>, ORDER_ATOMIC)]

\* The table of math_constant in the math module of src/unnamed/part_003.
CmathConstants ==
    [PI |-> Value(<<"M_PI">>, ORDER_ATOMIC),
     E |-> Value(<<"M_E">>, ORDER_ATOMIC),
     GOLDEN_RATIO |->
         Value(<<"(", "1", " + ", "sqrt(5)", ")", " / ", "2">>,
               ORDER_MULTIPLICATIVE),
     SQRT2 |-> Value(<<"M_SQRT2">>, ORDER_ATOMIC),
     SQRT1_2 |-> Value(<<"M_SQRT1_2">>, ORDER_ATOMIC),
     INFINITY |-> Value(<<"INFINITY">>, ORDER_ATOMIC)]

\* What the driver makes of table[key]: the entry, or its complaint about
\* a rule that returned undefined.
Lookup(table, key) ==
    IF key \in DOMAIN table THEN table[key]
    ELSE Err("Invalid code generated: undefined")

\* generators/cpp/math.js
math_constant(g, b) ==
    LET constant == b.CONSTANT_
    IN  Ret(IF constant # "INFINITY"
            THEN Define(g, "import_dart_math", DART_MATH) ELSE g,
            Lookup(MathConstants, constant))

\* What an identifier that no enclosing function declares resolves to: a
\* property of the global object, or nothing.
Unbound == [bound |-> FALSE, value |-> ""]
BoundTo(v) == [bound |-> TRUE, value |-> v]

\* src/unnamed/part_003.  The function reads the identifier constant, which
\* it does not declare; the parameter constant is what the identifier
\* resolves to where the function runs.
math_constant_cmath(g, b, constant) ==
    Ret(Define(g, "include_cpp_cmath", <<"#include <cmath>">>),
        IF ~constant.bound
        THEN Err("ReferenceError: constant is not defined")
        ELSE Lookup(CmathConstants, constant.value))

math_number_property(g, b) ==
    LET dropdownProperty == b.PROPERTY
        suffix == CASE dropdownProperty = "EVEN" -> <<" % 2 == 0">>
                    [] dropdownProperty = "ODD" -> <<" % 2 == 1">>
                    [] dropdownProperty = "WHOLE" -> <<" % 1 == 0">>
                    [] dropdownProperty = "POSITIVE" -> <<" > 0">>
                    [] dropdownProperty = "NEGATIVE" -> <<" < 0">>
                    [] OTHER -> <<>>
        inputOrder ==
            CASE dropdownProperty \in {"POSITIVE", "NEGATIVE"} ->
                   ORDER_RELATIONAL
              [] dropdownProperty = "PRIME" -> ORDER_NONE
              [] OTHER -> ORDER_MULTIPLICATIVE
        outputOrder ==
            CASE dropdownProperty \in {"POSITIVE", "NEGATIVE"} ->
                   ORDER_RELATIONAL
              [] dropdownProperty = "PRIME" -> ORDER_UNARY_POSTFIX
              [] OTHER -> ORDER_EQUALITY
        Called(f, numberToCheck) ==
            Ret(f.g, Value(f.name \o <<"(">> \o numberToCheck \o <<")">>,
                           outputOrder))
        Divisible(numberToCheck, divisor) ==
            IF divisor = <<"0">>
            THEN Ret(g, Value(<<"false">>, ORDER_ATOMIC))
            ELSE Ret(g, Value(numberToCheck \o <<" % ">> \o divisor
                                  \o <<" == 0">>,
                              outputOrder))
        Checked(numberToCheck) ==
            IF dropdownProperty = "PRIME"
            THEN Called(provideFunction_(
                            Define(g, "import_dart_math", DART_MATH),
                            "math_isPrime",
                            <<"bool ", PLACEHOLDER, "(n) {...}">>),
                        numberToCheck)
            ELSE IF dropdownProperty = "DIVISIBLE_BY"
            THEN Divisible(numberToCheck,
                           OrElse(valueToCode(b.DIVISOR,
                                              ORDER_MULTIPLICATIVE),
                                  <<"0">>))
            ELSE Ret(g, Value(numberToCheck \o suffix, outputOrder))
    IN  IF dropdownProperty \notin
               {"EVEN", "ODD", "WHOLE", "POSITIVE", "NEGATIVE",
                "DIVISIBLE_BY", "PRIME"}
        THEN Ret(g, Err("TypeError: undefined is not iterable"))
        ELSE Checked(OrElse(valueToCode(b.NUMBER_TO_CHECK, inputOrder),
                            <<"0">>))

math_change(g, b) ==
    LET argument0 == OrElse(valueToCode(b.DELTA, ORDER_ADDITIVE), <<"0">>)
        Changed(varName) ==
            Ret(varName.g,
                Stmt(varName.name \o <<" = (">> \o varName.name
                         \o <<" is num ? ">> \o varName.name
                         \o <<" : 0) + ">> \o argument0 \o <<";", NL>>))
    IN  Changed(Named(g, b.VAR, "VARIABLE"))

math_on_list(g, b) ==
    LET func == b.OP
        list == OrElse(valueToCode(b.LIST, ORDER_NONE), <<"[]">>)
        gm == Define(g, "import_dart_math", DART_MATH)
        Called(f) ==
            Ret(f.g, Value(f.name \o <<"(">> \o list \o <<")">>,
                           ORDER_UNARY_POSTFIX))
        Helper(g0, key, ret, params) ==
            Called(provideFunction_(g0, key,
                       <<ret, PLACEHOLDER, params, " {...}">>))
    IN  CASE func = "SUM" -> Helper(g, "math_sum", "num ", "(List<num> myList)")
          [] func = "MIN" ->
               Helper(gm, "math_min", "num ", "(List<num> myList)")
          [] func = "MAX" ->
               Helper(gm, "math_max", "num ", "(List<num> myList)")
          [] func = "AVERAGE" -> Helper(g, "math_mean", "num ", "(List myList)")
          [] func = "MEDIAN" ->
               Helper(g, "math_median", "num ", "(List myList)")
          [] func = "MODE" -> Helper(gm, "math_modes", "List ", "(List values)")
          [] func = "STD_DEV" ->
               Helper(gm, "math_standard_deviation", "num ", "(List myList)")
          [] func = "RANDOM" ->
               Helper(gm, "math_random_item", "dynamic ", "(List myList)")
          [] OTHER -> Ret(g, Err("Unknown operator: " \o func))

(***************************************************************************)
(* Loop blocks (src/unnamed/part_000).                                      *)
(***************************************************************************)
\* A test that finds every count in need of a variable of its own.
NonTrivial_Any(t) == TRUE

\* !t.match(/^\w+$/) && !isNumber(t)
NonTrivial(t) == ~IsWord(t) /\ ~isNumber(t)

controls_repeat_ext(g, b) ==
    LET branch == addLoopTrap(statementToCode(b.DO))
        Loop(g1, code, loopVar, endVar) ==
            Ret(g1,
                Stmt(code \o <<"for (int ">> \o loopVar \o <<" = 0; ">>
                         \o loopVar \o <<" < ">> \o endVar \o <<"; ">>
                         \o loopVar \o <<"++) {", NL>> \o branch
                         \o <<"}", NL>>))
        Cached(lv, repeats, ev) ==
            Loop(ev.g,
                 <<"var ">> \o ev.name \o <<" = ">> \o repeats \o <<";", NL>>,
                 lv.name, ev.name)
        Counted(lv, repeats) ==
            IF NonTrivial(repeats)
            THEN Cached(lv, repeats, Distinct(lv.g, <<"repeat_end">>))
            ELSE Loop(lv.g, <<>>, lv.name, repeats)
    IN  Counted(Distinct(g, <<"count">>),
                IF b.hasField THEN NumToText(b.TIMES_FIELD)
                ELSE OrElse(valueToCode(b.TIMES, ORDER_ASSIGNMENT), <<"0">>))

controls_whileUntil(g, b) ==
    LET until == b.MODE = "UNTIL"
        argument0 ==
            OrElse(valueToCode(b.BOOL, IF until THEN ORDER_UNARY_PREFIX
                                       ELSE ORDER_NONE),
                   <<"false">>)
        branch == addLoopTrap(statementToCode(b.DO))
    IN  Ret(g, Stmt(<<"while (">>
                        \o (IF until THEN <<"!">> \o argument0 ELSE argument0)
                        \o <<") {", NL>> \o branch \o <<"}", NL>>))

controls_forEach(g, b) ==
    LET argument0 == OrElse(valueToCode(b.LIST, ORDER_ASSIGNMENT), <<"[]">>)
        branch == addLoopTrap(statementToCode(b.DO))
        Each(variable0) ==
            Ret(variable0.g,
                Stmt(<<"for (var ">> \o variable0.name \o <<" in ">>
                         \o argument0 \o <<") {", NL>> \o branch
                         \o <<"}", NL>>))
    IN  Each(Named(g, b.VAR, "VARIABLE"))

\* Math.abs(Number(t)) of a numeric text t, as it is converted back to text:
\* the text without its sign (the literals of the model carry no leading zero).
AbsText(t) == IF t[1] = "-" THEN Tail(t) ELSE t

\* Number(t) in tenths, for a numeric text with at most one decimal digit.
NumberTenths(t) ==
    LET u == IF t[1] = "-" THEN Tail(t) ELSE t
        whole == LeadingDigits(u)
        frac == IF Len(u) > Len(whole)
                THEN SubSeq(u, Len(whole) + 2, Len(u)) ELSE <<>>
        mag == 10 * DigitsValue(whole)
                 + (IF frac = <<>> THEN 0 ELSE DigitVal(frac[1]))
    IN  IF t[1] = "-" THEN 0 - mag ELSE mag

\* Number(t0) <= Number(t1)
NumLeq(t0, t1) == NumberTenths(t0) <= NumberTenths(t1)

controls_for(g, b) ==
    LET branch == addLoopTrap(statementToCode(b.DO))
        \* All arguments are simple numbers.
        Simple(v0, argument0, argument1, up, step) ==
            Ret(v0.g,
                Stmt(<<"for (">> \o v0.name \o <<" = ">> \o argument0
                         \o <<"; ">> \o v0.name
                         \o (IF up THEN <<" <= ">> ELSE <<" >= ">>)
                         \o argument1 \o <<"; ">> \o v0.name
                         \o (IF step = <<"1">>
                             THEN (IF up THEN <<"++">> ELSE <<"--">>)
                             ELSE (IF up THEN <<" += ">> ELSE <<" -= ">>)
                                      \o step)
                         \o <<") {", NL>> \o branch \o <<"}", NL>>))
        \* A bound cached in the variable cv: [g, name, code]
        Declared(cv, value) ==
            [g |-> cv.g, name |-> cv.name,
             code |-> <<"var ">> \o cv.name \o <<" = ">> \o value
                          \o <<";", NL>>]
        \* A bound, cached in a variable of its own unless it is trivial.
        Cache(g0, value, name) ==
            IF NonTrivial(value) THEN Declared(Distinct(g0, name), value)
            ELSE [g |-> g0, name |-> value, code |-> <<>>]
        Loop(variable0, sv, ev, iv, increment) ==
            Ret(iv.g,
                Stmt(sv.code \o ev.code
                         \o <<"num ">> \o iv.name \o <<" = ">>
                         \o (IF isNumber(increment)
                             THEN AbsText(increment) \o <<";", NL>>
                             ELSE <<"(">> \o increment \o <<").abs();", NL>>)
                         \o <<"if (">> \o sv.name \o <<" > ">> \o ev.name
                         \o <<") {", NL, INDENT>> \o iv.name \o <<" = -">>
                         \o iv.name \o <<";", NL, "}", NL>>
                         \o <<"for (">> \o variable0 \o <<" = ">> \o sv.name
                         \o <<"; ">> \o iv.name \o <<" >= 0 ? ">>
                         \o variable0 \o <<" <= ">> \o ev.name \o <<" : ">>
                         \o variable0 \o <<" >= ">> \o ev.name \o <<"; ">>
                         \o variable0 \o <<" += ">> \o iv.name
                         \o <<") {", NL>> \o branch \o <<"}", NL>>))
        WithEnd(variable0, sv, ev, increment) ==
            Loop(variable0, sv, ev,
                 Distinct(ev.g, variable0 \o <<"_inc">>), increment)
        WithStart(variable0, sv, argument1, increment) ==
            WithEnd(variable0, sv,
                    Cache(sv.g, argument1, variable0 \o <<"_end">>),
                    increment)
        General(v0, argument0, argument1, increment) ==
            WithStart(v0.name,
                      Cache(v0.g, argument0, v0.name \o <<"_start">>),
                      argument1, increment)
        For(v0, argument0, argument1, increment) ==
            IF isNumber(argument0) /\ isNumber(argument1)
                  /\ isNumber(increment)
            THEN Simple(v0, argument0, argument1,
                        NumLeq(argument0, argument1), AbsText(increment))
            ELSE General(v0, argument0, argument1, increment)
    IN  For(Named(g, b.VAR, "VARIABLE"),
            OrElse(valueToCode(b.FROM, ORDER_ASSIGNMENT), <<"0">>),
            OrElse(valueToCode(b.TO, ORDER_ASSIGNMENT), <<"0">>),
            OrElse(valueToCode(b.BY_, ORDER_ASSIGNMENT), <<"1">>))

\* Variant of controls_flow_statements that puts the block's suffix before
\* its prefix.
controls_flow_statements_SuffixFirst(g, b) ==
    LET x1 == IF b.STATEMENT_PREFIX # <<>>
              THEN injectId(b.STATEMENT_PREFIX, b.id) ELSE <<>>
        x2 == IF b.STATEMENT_SUFFIX # <<>>
              THEN injectId(b.STATEMENT_SUFFIX, b.id) ELSE <<>>
        x3 == IF b.STATEMENT_PREFIX # <<>> /\ b.loop.exists
                  /\ ~b.loop.suppressPrefixSuffix
              THEN injectId(b.STATEMENT_PREFIX, b.loop.id) ELSE <<>>
        xfix == x2 \o x1 \o x3
    IN  CASE b.FLOW = "BREAK" -> Ret(g, Stmt(xfix \o <<"break;", NL>>))
          [] b.FLOW = "CONTINUE" -> Ret(g, Stmt(xfix \o <<"continue;", NL>>))
          [] OTHER -> Ret(g, Err("Unknown flow statement."))

controls_flow_statements(g, b) ==
    LET x1 == IF b.STATEMENT_PREFIX # <<>>
              THEN injectId(b.STATEMENT_PREFIX, b.id) ELSE <<>>
        x2 == IF b.STATEMENT_SUFFIX # <<>>
              THEN injectId(b.STATEMENT_SUFFIX, b.id) ELSE <<>>
        x3 == IF b.STATEMENT_PREFIX # <<>> /\ b.loop.exists
                  /\ ~b.loop.suppressPrefixSuffix
              THEN injectId(b.STATEMENT_PREFIX, b.loop.id) ELSE <<>>
        xfix == x1 \o x2 \o x3
    IN  CASE b.FLOW = "BREAK" -> Ret(g, Stmt(xfix \o <<"break;", NL>>))
          [] b.FLOW = "CONTINUE" -> Ret(g, Stmt(xfix \o <<"continue;", NL>>))
          [] OTHER -> Ret(g, Err("Unknown flow statement."))

(***************************************************************************)
(* List blocks (src/unnamed/part_004).                                      *)
(***************************************************************************)
\* The closure cacheList of lists_getIndex: [g, list, code]
cacheList(g, list) ==
    LET Bound(lv) ==
            [g |-> lv.g, list |-> lv.name,
             code |-> <<"List ">> \o lv.name \o <<" = ">> \o list
                          \o <<";", NL>>]
    IN  Bound(Distinct(g, <<"tmp_list">>))

\* Variant of the closure of lists_setIndex that never binds the list.
cacheList_Never(g, list) == [g |-> g, list |-> list, code |-> <<>>]

\* The closure cacheList of lists_setIndex, which leaves a bare word alone.
cacheListUnlessWord(g, list) ==
    IF IsWord(list) THEN [g |-> g, list |-> list, code |-> <<>>]
    ELSE cacheList(g, list)

lists_getIndex(g, b) ==
    LET mode == FieldOr(b.MODE, "GET")
        where == FieldOr(b.WHERE, "FROM_START")
        listOrder == IF where \in {"RANDOM", "FROM_END"} THEN ORDER_NONE
                     ELSE ORDER_UNARY_POSTFIX
        list == OrElse(valueToCode(b.VALUE, listOrder), <<"[]">>)
        Adj(d, o) == AtText(getAdjusted(b.AT, b.oneBasedIndex, d, FALSE, o))
        unhandled == Err("Unhandled combination (lists_getIndex).")
        Called(f, args) ==
            Ret(f.g, Value(f.name \o <<"(">> \o list \o args \o <<")">>,
                           ORDER_UNARY_POSTFIX))
        ViaHelper(g0, key, params, args) ==
            Called(provideFunction_(g0, key,
                       <<"dynamic ", PLACEHOLDER, params, " {...}">>),
                   args)
        gm == Define(g, "import_dart_math", DART_MATH)
        RemoveRandom(c, xv) ==
            Ret(xv.g,
                Stmt(c.code \o <<"int ">> \o xv.name
                         \o <<" = new Math.Random().nextInt(">>
                         \o c.list \o <<".length);", NL>>
                         \o c.list \o <<".removeAt(">> \o xv.name
                         \o <<");", NL>>))
        RemoveRandomCached(c) == RemoveRandom(c, Distinct(c.g, <<"tmp_x">>))
        RemoveFromEndCached(c, at) ==
            Ret(c.g,
                Stmt(c.code \o c.list \o <<".removeAt(">>
                         \o c.list \o <<".length", " - ">>
                         \o at \o <<");", NL>>))
        FromStart(at) ==
            CASE mode = "GET" ->
                   Ret(g, Value(list \o <<"[">> \o at \o <<"]">>,
                                ORDER_UNARY_POSTFIX))
              [] mode = "GET_REMOVE" ->
                   Ret(g, Value(list \o <<".removeAt(">> \o at \o <<")">>,
                                ORDER_UNARY_POSTFIX))
              [] mode = "REMOVE" ->
                   Ret(g, Stmt(list \o <<".removeAt(">> \o at
                                   \o <<");", NL>>))
              [] OTHER -> Ret(g, unhandled)
        FromEnd(at) ==
            CASE mode = "GET" ->
                   Ret(g, Value(list \o <<"[">> \o list
                                    \o <<".length - ">> \o at \o <<"]">>,
                                ORDER_UNARY_POSTFIX))
              [] mode = "GET_REMOVE" ->
                   Ret(g, Value(list \o <<".removeAt(">> \o list
                                    \o <<".length - ">> \o at \o <<")">>,
                                ORDER_UNARY_POSTFIX))
              [] mode = "REMOVE" ->
                   Ret(g, Stmt(list \o <<".removeAt(">> \o list
                                   \o <<".length - ">> \o at
                                   \o <<")", ";", NL>>))
              [] OTHER -> Ret(g, unhandled)
        RemoveRandomBare(xv) ==
            Ret(xv.g,
                Stmt(<<"int ">> \o xv.name
                         \o <<" = new Math.Random().nextInt(">>
                         \o list \o <<".length);", NL>>
                         \o list \o <<".removeAt(">>
                         \o xv.name \o <<");", NL>>))
    IN  IF ((where = "RANDOM" /\ mode = "REMOVE") \/ where = "FROM_END")
              /\ ~IsWord(list)
        THEN IF where = "RANDOM"
             THEN RemoveRandomCached(cacheList(gm, list))
             ELSE CASE mode = "REMOVE" ->
                         RemoveFromEndCached(cacheList(g, list),
                                             Adj(1, ORDER_ADDITIVE))
                    [] mode = "GET" ->
                         ViaHelper(g, "lists_get_from_end",
                                   "(List my_list, num x)",
                                   <<", ">> \o Adj(1, Undefined))
                    [] mode = "GET_REMOVE" ->
                         ViaHelper(g, "lists_remove_from_end",
                                   "(List my_list, num x)",
                                   <<", ">> \o Adj(1, Undefined))
                    [] OTHER -> Ret(g, unhandled)
        ELSE CASE where = "FIRST" ->
                    (CASE mode = "GET" ->
                            Ret(g, Value(list \o <<".first">>,
                                         ORDER_UNARY_POSTFIX))
                       [] mode = "GET_REMOVE" ->
                            Ret(g, Value(list \o <<".removeAt(0)">>,
                                         ORDER_UNARY_POSTFIX))
                       [] mode = "REMOVE" ->
                            Ret(g, Stmt(list \o <<".removeAt(0);", NL>>))
                       [] OTHER -> Ret(g, unhandled))
               [] where = "LAST" ->
                    (CASE mode = "GET" ->
                            Ret(g, Value(list \o <<".last">>,
                                         ORDER_UNARY_POSTFIX))
                       [] mode = "GET_REMOVE" ->
                            Ret(g, Value(list \o <<".removeLast()">>,
                                         ORDER_UNARY_POSTFIX))
                       [] mode = "REMOVE" ->
                            Ret(g, Stmt(list \o <<".removeLast();", NL>>))
                       [] OTHER -> Ret(g, unhandled))
               [] where = "FROM_START" -> FromStart(Adj(Undefined, Undefined))
               [] where = "FROM_END" -> FromEnd(Adj(1, ORDER_ADDITIVE))
               [] where = "RANDOM" ->
                    (CASE mode = "REMOVE" ->
                            RemoveRandomBare(Distinct(gm, <<"tmp_x">>))
                       [] mode = "GET" ->
                            ViaHelper(gm, "lists_get_random_item",
                                      "(List my_list)", <<>>)
                       [] mode = "GET_REMOVE" ->
                            ViaHelper(gm, "lists_remove_random_item",
                                      "(List my_list)", <<>>)
                       [] OTHER -> Ret(gm, unhandled))
               [] OTHER -> Ret(g, unhandled)

lists_setIndex(g, b) ==
    LET mode == FieldOr(b.MODE, "GET")
        where == FieldOr(b.WHERE, "FROM_START")
        list == OrElse(valueToCode(b.LIST, ORDER_UNARY_POSTFIX), <<"[]">>)
        value == OrElse(valueToCode(b.TO, ORDER_ASSIGNMENT), <<"null">>)
        Adj(d, o) == AtText(getAdjusted(b.AT, b.oneBasedIndex, d, FALSE, o))
        unhandled == Err("Unhandled combination (lists_setIndex).")
        gm == Define(g, "import_dart_math", DART_MATH)
        SetLast(c) ==
            Ret(c.g,
                Stmt(c.code \o c.list \o <<"[">> \o c.list
                         \o <<".length - 1] = ">> \o value \o <<";", NL>>))
        FromStart(at) ==
            CASE mode = "SET" ->
                   Ret(g, Stmt(list \o <<"[">> \o at \o <<"] = ">>
                                   \o value \o <<";", NL>>))
              [] mode = "INSERT" ->
                   Ret(g, Stmt(list \o <<".insert(">> \o at
                                   \o <<", ">> \o value \o <<");", NL>>))
              [] OTHER -> Ret(g, unhandled)
        FromEnd(c, at) ==
            CASE mode = "SET" ->
                   Ret(c.g,
                       Stmt(c.code \o c.list \o <<"[">> \o c.list
                                \o <<".length - ">> \o at
                                \o <<"] = ">> \o value \o <<";", NL>>))
              [] mode = "INSERT" ->
                   Ret(c.g,
                       Stmt(c.code \o c.list \o <<".insert(">>
                                \o c.list \o <<".length - ">> \o at
                                \o <<", ">> \o value \o <<");", NL>>))
              [] OTHER -> Ret(c.g, unhandled)
        Random(c, xv) ==
            LET code == c.code \o <<"int ">> \o xv.name
                          \o <<" = new Math.Random().nextInt(">>
                          \o c.list \o <<".length);", NL>>
            IN  CASE mode = "SET" ->
                       Ret(xv.g,
                           Stmt(code \o c.list \o <<"[">> \o xv.name
                                    \o <<"] = ">> \o value \o <<";", NL>>))
                  [] mode = "INSERT" ->
                       Ret(xv.g,
                           Stmt(code \o c.list \o <<".insert(">>
                                    \o xv.name \o <<", ">> \o value
                                    \o <<");", NL>>))
                  [] OTHER -> Ret(xv.g, unhandled)
        RandomCached(c) == Random(c, Distinct(c.g, <<"tmp_x">>))
    IN  CASE where = "FIRST" ->
               (CASE mode = "SET" ->
                       Ret(g, Stmt(list \o <<"[0] = ">> \o value
                                       \o <<";", NL>>))
                  [] mode = "INSERT" ->
                       Ret(g, Stmt(list \o <<".insert(0, ">> \o value
                                       \o <<");", NL>>))
                  [] OTHER -> Ret(g, unhandled))
          [] where = "LAST" ->
               (CASE mode = "SET" -> SetLast(cacheListUnlessWord(g, list))
                  [] mode = "INSERT" ->
                       Ret(g, Stmt(list \o <<".add(">> \o value
                                       \o <<");", NL>>))
                  [] OTHER -> Ret(g, unhandled))
          [] where = "FROM_START" -> FromStart(Adj(Undefined, Undefined))
          [] where = "FROM_END" ->
               FromEnd(cacheListUnlessWord(g, list), Adj(1, ORDER_ADDITIVE))
          [] where = "RANDOM" -> RandomCached(cacheListUnlessWord(gm, list))
          [] OTHER -> Ret(g, unhandled)

lists_getSublist(g, b) ==
    LET list == OrElse(valueToCode(b.LIST, ORDER_UNARY_POSTFIX), <<"[]">>)
        where1 == b.WHERE1
        where2 == b.WHERE2
        Adj(slot, d, o) ==
            AtText(getAdjusted(slot, b.oneBasedIndex, d, FALSE, o))
        at1 == CASE where1 = "FROM_START" -> Adj(b.AT1, Undefined, Undefined)
                 [] where1 = "FROM_END" ->
                      list \o <<".length - ">> \o Adj(b.AT1, 1, ORDER_ADDITIVE)
                 [] OTHER -> <<"0">>
        at2 == CASE where2 = "FROM_START" -> Adj(b.AT2, 1, Undefined)
                 [] where2 = "FROM_END" ->
                      list \o <<".length - ">> \o Adj(b.AT2, 0, ORDER_ADDITIVE)
                 [] OTHER -> <<>>
        Called(f, args) ==
            Ret(f.g, Value(f.name \o <<"(">> \o args \o <<")">>,
                           ORDER_UNARY_POSTFIX))
    IN  IF IsWord(list) \/ (where1 # "FROM_END" /\ where2 = "FROM_START")
        THEN IF where1 \notin {"FROM_START", "FROM_END", "FIRST"}
                  \/ where2 \notin {"FROM_START", "FROM_END", "LAST"}
             THEN Ret(g, Err("Unhandled option (lists_getSublist)."))
             ELSE Ret(g, Value(list \o <<".sublist(">> \o at1
                                   \o (IF where2 = "LAST" THEN <<>>
                                       ELSE <<", ">> \o at2)
                                   \o <<")">>,
                               ORDER_UNARY_POSTFIX))
        ELSE Called(provideFunction_(g, "lists_get_sublist",
                        <<"List ", PLACEHOLDER,
                          "(List list, String where1, num at1, ",
                          "String where2, num at2) {...}">>),
                    list \o <<", '", where1, "', ">>
                        \o Adj(b.AT1, Undefined, Undefined)
                        \o <<", '", where2, "', ">>
                        \o Adj(b.AT2, Undefined, Undefined))

(***************************************************************************)
(* Variable blocks (src/unnamed/part_003, the variables module).            *)
(***************************************************************************)
\* A variables_get that asks the name table for a distinct name at every
\* emission.
variables_get_Distinct(g, b) ==
    LET Got(n) == Ret(n.g, Value(n.name, ORDER_ATOMIC))
    IN  Got(Distinct(g, <<b.VAR>>))

variables_get(g, b) ==
    LET Got(n) == Ret(n.g, Value(n.name, ORDER_ATOMIC))
    IN  Got(Named(g, b.VAR, "VARIABLE"))

variables_set(g, b) ==
    LET argument0 == OrElse(valueToCode(b.VALUE, ORDER_ASSIGNMENT), <<"0">>)
        Set(n) ==
            Ret(n.g, Stmt(n.name \o <<" = ">> \o argument0 \o <<";", NL>>))
    IN  Set(Named(g, b.VAR, "VARIABLE"))

(***************************************************************************)
(* Procedure blocks (src/unnamed/part_002).                                 *)
(***************************************************************************)
\* The texts of the argument slots, 'null' for an empty one.
CallArgs(b) ==
    [i \in 1..Len(b.ARGS) |->
        OrElse(valueToCode(b.ARGS[i], ORDER_NONE), <<"null">>)]

procedures_callreturn(g, b) ==
    LET Called(n) ==
            Ret(n.g,
                Value(n.name \o <<"(">> \o Join(CallArgs(b), <<", ">>)
                          \o <<")">>,
                      ORDER_UNARY_POSTFIX))
    IN  Called(Named(g, b.NAME, "PROCEDURE"))

procedures_callnoreturn(g, b) ==
    LET Statement(tuple) ==
            Ret(tuple.g, Stmt(tuple.res.code \o <<";", NL>>))
    IN  Statement(procedures_callreturn(g, b))

procedures_ifreturn(g, b) ==
    LET condition == OrElse(valueToCode(b.CONDITION, ORDER_NONE), <<"false">>)
        suffix ==
            IF b.STATEMENT_SUFFIX # <<>>
            THEN prefixLines(injectId(b.STATEMENT_SUFFIX, b.id), INDENT)
            ELSE <<>>
        return ==
            IF b.hasReturnValue_
            THEN <<INDENT, "return ">>
                     \o OrElse(valueToCode(b.VALUE, ORDER_NONE), <<"null">>)
                     \o <<";", NL>>
            ELSE <<INDENT, "return;", NL>>
    IN  Ret(g, Stmt(<<"if (">> \o condition \o <<") {", NL>> \o suffix
                        \o return \o <<"}", NL>>))

(***************************************************************************)
(* Chains of statement blocks: blockToCode runs the rule of a block and     *)
(* hands its text to scrub_, which asks blockToCode for the block after it. *)
(***************************************************************************)
ChainIds == {"b1", "b2", "b3"}
NoNext == "none"

\* The blocks of a chain: the block after each, and each block's comment.
ChainWorkspaces ==
    {[next |-> n, comment |-> c] :
        n \in [ChainIds -> ChainIds \cup {NoNext}],
        c \in {[i \in ChainIds |-> <<>>],
               [i \in ChainIds |-> IF i = "b2" THEN <<"note">> ELSE <<>>]}}

\* The text the rule of a chain's block returns.
OwnCode(id) == <<id, "();", NL>>

\* [res, calls]: the text of the chain from block id on, or the error the
\* engine raises once no frame is left, and the blocks whose rules ran.
RECURSIVE blockToCodeNext(_, _, _, _)
RECURSIVE scrub_(_, _, _, _, _)
blockToCodeNext(w, id, opt_thisOnly, frames) ==
    IF id = NoNext THEN [res |-> Stmt(<<>>), calls |-> <<>>]
    ELSE IF frames = 0
    THEN [res |-> Err("RangeError: Maximum call stack size exceeded"),
          calls |-> <<>>]
    ELSE scrub_(w, id, OwnCode(id), opt_thisOnly, frames - 1)

scrub_(w, block, code, opt_thisOnly, frames) ==
    LET commentCode ==
            IF w.comment[block] # <<>>
            THEN prefixLines(w.comment[block] \o <<NL>>, "// ")
            ELSE <<>>
        Scrubbed(nextCode) ==
            [res |-> IF nextCode.res.kind = "error" THEN nextCode.res
                     ELSE Stmt(commentCode \o code \o nextCode.res.code),
             calls |-> <<block>> \o nextCode.calls]
    IN  Scrubbed(IF opt_thisOnly THEN [res |-> Stmt(<<>>), calls |-> <<>>]
                 ELSE blockToCodeNext(w, w.next[block], FALSE, frames))

\* A rule returned null: the block contributes no text where it stands.
Null == [kind |-> "null", code |-> <<>>, order |-> 0]

\* The workspace of a block that stands alone, with its comment.
Alone(block, comment) ==
    [next |-> [i \in ChainIds |-> NoNext],
     comment |-> [i \in ChainIds |-> IF i = block THEN comment ELSE <<>>]]

\* Variant of ProcedureKey without the '%'.
ProcedureKey_Bare(funcName) == Spelling(funcName)

\* '%' + funcName
ProcedureKey(funcName) == "%" \o Spelling(funcName)

\* part_002: procedures_defreturn, which is procedures_defnoreturn as well.
procedures_defreturn(g, b) ==
    LET hooks == (IF b.STATEMENT_PREFIX # <<>>
                  THEN injectId(b.STATEMENT_PREFIX, b.id) ELSE <<>>)
                     \o (IF b.STATEMENT_SUFFIX # <<>>
                         THEN injectId(b.STATEMENT_SUFFIX, b.id) ELSE <<>>)
        xfix1 == IF hooks # <<>> THEN prefixLines(hooks, INDENT) ELSE <<>>
        branch == statementToCode(b.STACK)
        value == valueToCode(b.RETURN, ORDER_NONE)
        xfix2 == IF branch # <<>> /\ value # <<>> THEN xfix1 ELSE <<>>
        returnValue == IF value # <<>>
                       THEN <<INDENT, "return ">> \o value \o <<";", NL>>
                       ELSE <<>>
        returnType == IF returnValue # <<>> THEN "int" ELSE "void"
        Stored(funcName, g1, code) ==
            Ret(Define(g1, ProcedureKey(funcName),
                       scrub_(Alone(b.id, b.comment), b.id, code, FALSE,
                              MaxStack).res.code),
                Null)
        Defined(funcName, g0, args) ==
            Stored(funcName, [g0 EXCEPT !.nameDB_ = args.db],
                   <<returnType, " ">> \o funcName \o <<"(">>
                       \o Join(args.names, <<", ">>) \o <<") {", NL>>
                       \o xfix1 \o branch \o xfix2 \o returnValue \o <<"}">>)
        WithName(fn) ==
            Defined(fn.name, fn.g, getNames(fn.g.nameDB_, b.vars, "VARIABLE"))
    IN  WithName(Named(g, b.NAME, "PROCEDURE"))

\* math.js: math_number.  NUM is the text of the field.
math_number(g, b) ==
    IF b.NUM = <<"Infinity">>
    THEN Ret(g, Value(<<"double.infinity">>, ORDER_UNARY_POSTFIX))
    ELSE IF b.NUM = <<"-", "Infinity">>
    THEN Ret(g, Value(<<"-", "double.infinity">>, ORDER_UNARY_PREFIX))
    ELSE LET code == parseInt(b.NUM)
         IN  Ret(g, Value(NumToText(code),
                          IF code < 0 THEN ORDER_UNARY_PREFIX
                          ELSE ORDER_ATOMIC))

\* math.js: math_modulo
math_modulo(g, b) ==
    LET argument0 ==
            OrElse(valueToCode(b.DIVIDEND, ORDER_MULTIPLICATIVE), <<"0">>)
        argument1 ==
            OrElse(valueToCode(b.DIVISOR, ORDER_MULTIPLICATIVE), <<"0">>)
    IN  Ret(g, Value(argument0 \o <<" % ">> \o argument1,
                     ORDER_MULTIPLICATIVE))

(***************************************************************************)
(* Dispatch: the generator looks the rule up by the block's type.           *)
(***************************************************************************)
blockToCode(g, b) ==
    CASE b.rule = "controls_if" -> controls_if(g, b)
      [] b.rule = "logic_compare" -> logic_compare(g, b)
      [] b.rule = "logic_operation" -> logic_operation(g, b)
      [] b.rule = "text" -> text(g, b)
      [] b.rule = "text_charAt" -> text_charAt(g, b)
      [] b.rule = "text_getSubstring" -> text_getSubstring(g, b)
      [] b.rule = "text_changeCase" -> text_changeCase(g, b)
      [] b.rule = "text_trim" -> text_trim(g, b)
      [] b.rule = "math_arithmetic" -> math_arithmetic(g, b)
      [] b.rule = "math_single" -> math_single(g, b)
      [] b.rule = "math_on_list" -> math_on_list(g, b)
      [] b.rule = "controls_repeat_ext" -> controls_repeat_ext(g, b)
      [] b.rule = "controls_for" -> controls_for(g, b)
      [] b.rule = "controls_flow_statements" -> controls_flow_statements(g, b)
      [] b.rule = "lists_getIndex" -> lists_getIndex(g, b)
      [] b.rule = "lists_setIndex" -> lists_setIndex(g, b)
      [] b.rule = "lists_getSublist" -> lists_getSublist(g, b)
      [] b.rule = "math_constant" -> math_constant(g, b)
      [] b.rule = "math_number_property" -> math_number_property(g, b)
      [] b.rule = "controls_whileUntil" -> controls_whileUntil(g, b)
      [] b.rule = "controls_forEach" -> controls_forEach(g, b)
      [] b.rule = "math_change" -> math_change(g, b)
      [] b.rule = "text_append" -> text_append(g, b)
      [] b.rule = "text_print" -> text_print(g, b)
      [] b.rule = "variables_get" -> variables_get(g, b)
      [] b.rule = "variables_set" -> variables_set(g, b)
      [] b.rule = "procedures_callreturn" -> procedures_callreturn(g, b)
      [] b.rule = "procedures_callnoreturn" -> procedures_callnoreturn(g, b)
      [] b.rule = "procedures_ifreturn" -> procedures_ifreturn(g, b)
      [] b.rule = "math_number" -> math_number(g, b)
      [] b.rule = "math_modulo" -> math_modulo(g, b)
      [] b.rule \in {"procedures_defreturn", "procedures_defnoreturn"} ->
           procedures_defreturn(g, b)

\* The registry and the last result after the blocks of a run were emitted
\* one after the other, starting from the registry g.
RECURSIVE Replay(_, _)
Replay(g, blocks) ==
    IF blocks = <<>> THEN Ret(g, NoResult)
    ELSE LET before == Replay(g, SubSeq(blocks, 1, Len(blocks) - 1))
         IN  blockToCode(before.g, blocks[Len(blocks)])

(***************************************************************************)
(* The blocks handed to the rules.  A value slot holds what the child's     *)
(* rule returned; each slot has operand texts of its own.                   *)
(***************************************************************************)
Call(name) == <<name, "(", ")">>

ListKids ==
    {NoChild, Child(<<"myList">>, ORDER_ATOMIC),
     Child(Call("getList"), ORDER_UNARY_POSTFIX),
     Child(<<"p", " + ", "q">>, ORDER_ADDITIVE)}

TextKids ==
    {NoChild, Child(<<"myText">>, ORDER_ATOMIC),
     Child(quote_(<<"a">>), ORDER_ATOMIC),
     Child(Call("getText"), ORDER_UNARY_POSTFIX),
     Child(<<"s", " + ", "t">>, ORDER_ADDITIVE)}

AtKids ==
    {NoChild, Child(<<"i">>, ORDER_ATOMIC), Child(<<"5">>, ORDER_ATOMIC),
     Child(<<"-", "3">>, ORDER_UNARY_PREFIX),
     Child(Call("f"), ORDER_UNARY_POSTFIX),
     Child(<<"n", " + ", "m">>, ORDER_ADDITIVE)}

At2Kids ==
    {NoChild, Child(<<"k">>, ORDER_ATOMIC), Child(<<"7">>, ORDER_ATOMIC),
     Child(Call("h"), ORDER_UNARY_POSTFIX),
     Child(<<"b", " - ", "c">>, ORDER_ADDITIVE)}

ToKids ==
    {NoChild, Child(<<"v">>, ORDER_ATOMIC),
     Child(Call("g"), ORDER_UNARY_POSTFIX)}

ByKids ==
    {NoChild, Child(<<"2">>, ORDER_ATOMIC), Child(<<"0">>, ORDER_ATOMIC),
     Child(<<"0", ".", "5">>, ORDER_ATOMIC),
     Child(<<"-", "1">>, ORDER_UNARY_PREFIX),
     Child(Call("g"), ORDER_UNARY_POSTFIX)}

\* One child for every precedence of the table.
OrderKids == {Child(<<"y">>, q) : q \in Orders}

CondKids ==
    {NoChild, Child(<<"a">>, ORDER_ATOMIC),
     Child(<<"x", " < ", "5">>, ORDER_RELATIONAL)}

CondKids2 ==
    {NoChild, Child(<<"b">>, ORDER_ATOMIC),
     Child(<<"y", " == ", "0">>, ORDER_EQUALITY)}

\* Statement chains, as emitted: each statement ends with a newline.
Chains(name) == {<<>>, <<INDENT, name, "();", NL>>}

Hooks == {<<>>, <<"trace(", "%1", ");", NL>>}

\* Values of STATEMENT_SUFFIX that differ from those of STATEMENT_PREFIX.
SuffixHooks == {<<>>, <<"done(", "%1", ");", NL>>}

Modes == {"", "GET", "GET_REMOVE", "REMOVE", "BOGUS"}
SetModes == {"", "SET", "INSERT", "BOGUS"}
Wheres == {"", "FIRST", "LAST", "FROM_START", "FROM_END", "RANDOM", "BOGUS"}
Wheres1 == {"FROM_START", "FROM_END", "FIRST", "BOGUS"}
Wheres2 == {"FROM_START", "FROM_END", "LAST", "BOGUS"}

\* The block has an index input only while its WHERE field asks for one
\* (the absent field reads as FROM_START).
HasAt(where) == where \in {"", "FROM_START", "FROM_END", "BOGUS"}
AtKidsFor(where) == IF HasAt(where) THEN AtKids ELSE {NoChild}
At2KidsFor(where) == IF HasAt(where) THEN At2Kids ELSE {NoChild}

\* A controls_if block with the conditions c; every DO slot holds a chain of
\* its own, or none does.
IfBlock(c, filled, e, l, h, x) ==
    [rule |-> "controls_if", IF_ |-> c,
     DO |-> [k \in 1..Len(c) |->
                IF filled THEN <<INDENT, "p", DigitOf(k), "();", NL>>
                ELSE <<>>],
     hasElse |-> e, ELSE_ |-> l, STATEMENT_PREFIX |-> h,
     STATEMENT_SUFFIX |-> x, id |-> "b1"]

\* Without an ELSE input there is no chain in it.
Blocks_controls_if ==
    {IfBlock(<<c1>>, d, TRUE, l, <<>>, x) :
        c1 \in CondKids, d \in BOOLEAN, l \in Chains("r"), x \in Hooks}
    \cup
    {IfBlock(<<c1>>, d, FALSE, <<>>, <<>>, x) :
        c1 \in CondKids, d \in BOOLEAN, x \in Hooks}
    \cup
    {IfBlock(<<c1>> \o c, d, TRUE, l, h, x) :
        c1 \in CondKids,
        c \in UNION {[1..n -> CondKids2] : n \in 1..(MaxBranches - 1)},
        d \in BOOLEAN, l \in Chains("r"), h \in Hooks, x \in Hooks}
    \cup
    {IfBlock(<<c1>> \o c, d, FALSE, <<>>, h, x) :
        c1 \in CondKids,
        c \in UNION {[1..n -> CondKids2] : n \in 1..(MaxBranches - 1)},
        d \in BOOLEAN, h \in Hooks, x \in Hooks}

Blocks_logic_compare ==
    {[rule |-> "logic_compare", OP |-> op, A |-> a, B |-> c] :
        op \in {"EQ", "NEQ", "LT", "LTE", "GT", "GTE", "BOGUS"},
        a \in OrderKids \cup {NoChild}, c \in At2Kids}

Blocks_logic_operation ==
    {[rule |-> "logic_operation", OP |-> op, A |-> a, B |-> c] :
        op \in {"AND", "OR", "BOGUS"},
        a \in CondKids \cup {Child(<<"p", " || ", "q">>, ORDER_LOGICAL_OR)},
        c \in CondKids2 \cup
                {Child(<<"c", " ? ", "d", " : ", "e">>, ORDER_CONDITIONAL)}}

Blocks_text ==
    {[rule |-> "text", TEXT |-> s] : s \in StringsOfLen(1) \cup {<<>>}}

Blocks_text_charAt ==
    {b \in
        {[rule |-> "text_charAt", WHERE |-> w, VALUE |-> v, AT |-> a,
          oneBasedIndex |-> o] :
            w \in Wheres, v \in TextKids, a \in AtKids, o \in BOOLEAN}
     : b.AT \in AtKidsFor(b.WHERE)}

Blocks_text_getSubstring ==
    {b \in
        {[rule |-> "text_getSubstring", WHERE1 |-> w1, WHERE2 |-> w2,
          STRING |-> v, AT1 |-> a1, AT2 |-> a2, oneBasedIndex |-> o] :
            w1 \in Wheres1, w2 \in Wheres2, v \in TextKids, a1 \in AtKids,
            a2 \in At2Kids, o \in BOOLEAN}
     : b.AT1 \in AtKidsFor(b.WHERE1) /\ b.AT2 \in At2KidsFor(b.WHERE2)}

Blocks_text_changeCase ==
    {[rule |-> "text_changeCase", CASE_ |-> c, TEXT |-> v] :
        c \in {"UPPERCASE", "LOWERCASE", "TITLECASE", "BOGUS"},
        v \in TextKids}

Blocks_text_trim ==
    {[rule |-> "text_trim", MODE |-> m, TEXT |-> v] :
        m \in {"LEFT", "RIGHT", "BOTH", "BOGUS"}, v \in TextKids}

Blocks_math_arithmetic ==
    {[rule |-> "math_arithmetic", OP |-> op, A |-> a, B |-> c] :
        op \in {"ADD", "MINUS", "MULTIPLY", "DIVIDE", "POWER", "BOGUS"},
        a \in AtKids, c \in At2Kids}

Blocks_math_single ==
    {[rule |-> "math_single", OP |-> op, NUM |-> a] :
        op \in {"NEG", "ABS", "ROOT", "LN", "EXP", "POW10", "ROUND",
                "ROUNDUP", "ROUNDDOWN", "SIN", "COS", "TAN", "LOG10", "ASIN",
                "ACOS", "ATAN", "BOGUS"},
        a \in AtKids}

ConstantNames ==
    {"PI", "E", "GOLDEN_RATIO", "SQRT2", "SQRT1_2", "INFINITY"}

Blocks_math_constant ==
    {[rule |-> "math_constant", CONSTANT_ |-> c, module |-> "math.js",
      constant |-> Unbound] : c \in ConstantNames \cup {"BOGUS"}}

\* The blocks handed to the rule of part_003, each with what the identifier
\* constant resolves to during the call.
OuterBindings == {Unbound, BoundTo("PI"), BoundTo("E"), BoundTo("BOGUS")}

Blocks_math_constant_cmath ==
    {[rule |-> "math_constant", CONSTANT_ |-> c, module |-> "part_003",
      constant |-> o] : c \in ConstantNames, o \in OuterBindings}

Blocks_math_number_property ==
    {b \in {[rule |-> "math_number_property", PROPERTY |-> p,
             NUMBER_TO_CHECK |-> a, DIVISOR |-> d] :
                p \in {"EVEN", "ODD", "WHOLE", "POSITIVE", "NEGATIVE",
                       "DIVISIBLE_BY", "PRIME", "BOGUS"},
                a \in AtKids,
                d \in ByKids \cup {Child(<<"0">>, ORDER_ATOMIC)}} :
        b.PROPERTY # "DIVISIBLE_BY" => b.DIVISOR = NoChild}

Blocks_math_on_list ==
    {[rule |-> "math_on_list", OP |-> op, LIST |-> l] :
        op \in {"SUM", "MIN", "MAX", "AVERAGE", "MEDIAN", "MODE", "STD_DEV",
                "RANDOM", "BOGUS"},
        l \in ListKids}

Blocks_controls_repeat_ext ==
    {[rule |-> "controls_repeat_ext", hasField |-> FALSE, TIMES_FIELD |-> 0,
      TIMES |-> t, DO |-> d] : t \in AtKids, d \in Chains("p")}
    \cup
    {[rule |-> "controls_repeat_ext", hasField |-> TRUE, TIMES_FIELD |-> n,
      TIMES |-> NoChild, DO |-> d] : n \in {0, 10}, d \in Chains("p")}

Blocks_controls_for ==
    {[rule |-> "controls_for", VAR |-> v, FROM |-> a, TO |-> c, BY_ |-> i,
      DO |-> d] :
        v \in {"i", "x"}, a \in AtKids, c \in At2Kids, i \in ByKids,
        d \in Chains("p")}

\* The loop around a flow statement, as getSurroundLoop returns it.
Loops ==
    {[exists |-> FALSE, suppressPrefixSuffix |-> FALSE, id |-> "none"],
     [exists |-> TRUE, suppressPrefixSuffix |-> FALSE, id |-> "b0"],
     [exists |-> TRUE, suppressPrefixSuffix |-> TRUE, id |-> "b0"]}

Blocks_controls_flow_statements ==
    {[rule |-> "controls_flow_statements", FLOW |-> f, loop |-> l,
      STATEMENT_PREFIX |-> h, STATEMENT_SUFFIX |-> x, id |-> "b1"] :
        f \in {"BREAK", "CONTINUE", "BOGUS"}, l \in Loops, h \in Hooks,
        x \in SuffixHooks}

Blocks_lists_getIndex ==
    {b \in
        {[rule |-> "lists_getIndex", MODE |-> m, WHERE |-> w, VALUE |-> l,
          AT |-> a, oneBasedIndex |-> o] :
            m \in Modes, w \in Wheres, l \in ListKids, a \in AtKids,
            o \in BOOLEAN}
     : b.AT \in AtKidsFor(b.WHERE)}

Blocks_lists_setIndex ==
    {b \in
        {[rule |-> "lists_setIndex", MODE |-> m, WHERE |-> w, LIST |-> l,
          TO |-> t, AT |-> a, oneBasedIndex |-> o] :
            m \in SetModes, w \in Wheres, l \in ListKids, t \in ToKids,
            a \in AtKids, o \in BOOLEAN}
     : b.AT \in AtKidsFor(b.WHERE)}

Blocks_lists_getSublist ==
    {b \in
        {[rule |-> "lists_getSublist", WHERE1 |-> w1, WHERE2 |-> w2, LIST |-> l,
          AT1 |-> a1, AT2 |-> a2, oneBasedIndex |-> o] :
            w1 \in Wheres1, w2 \in Wheres2, l \in ListKids, a1 \in AtKids,
            a2 \in At2Kids, o \in BOOLEAN}
     : b.AT1 \in AtKidsFor(b.WHERE1) /\ b.AT2 \in At2KidsFor(b.WHERE2)}

Blocks_controls_whileUntil ==
    {[rule |-> "controls_whileUntil", MODE |-> m, BOOL |-> c, DO |-> d] :
        m \in {"WHILE", "UNTIL"},
        c \in CondKids \cup {Child(<<"!", "done">>, ORDER_UNARY_PREFIX)},
        d \in Chains("p")}

Blocks_controls_forEach ==
    {[rule |-> "controls_forEach", VAR |-> v, LIST |-> l, DO |-> d] :
        v \in {"i", "for"}, l \in ListKids, d \in Chains("p")}

Blocks_math_change ==
    {[rule |-> "math_change", VAR |-> v, DELTA |-> a] :
        v \in {"x", "for"}, a \in AtKids}

Blocks_text_append ==
    {[rule |-> "text_append", VAR |-> v, TEXT |-> t] :
        v \in {"x", "for"}, t \in TextKids}

Blocks_text_print == {[rule |-> "text_print", TEXT |-> t] : t \in TextKids}

\* Logical identifiers: plain ones, reserved words, and the spelling a
\* reserved word is given once it was made distinct.
VarIds == {"x", "count", "for", "for2", "auto"}

Blocks_variables_get == {[rule |-> "variables_get", VAR |-> v] : v \in VarIds}

Blocks_variables_set ==
    {[rule |-> "variables_set", VAR |-> v, VALUE |-> c] :
        v \in VarIds, c \in ToKids}

ArgLists ==
    {<<>>, <<NoChild>>,
     <<Child(<<"v">>, ORDER_ATOMIC),
       Child(<<"n", " + ", "m">>, ORDER_ADDITIVE)>>}

Blocks_procedures_callreturn ==
    {[rule |-> "procedures_callreturn", NAME |-> n, ARGS |-> a] :
        n \in {"n", "x", "for"}, a \in ArgLists}

Blocks_procedures_callnoreturn ==
    {[rule |-> "procedures_callnoreturn", NAME |-> n, ARGS |-> a] :
        n \in {"n", "x", "for"}, a \in ArgLists}

Blocks_procedures_ifreturn ==
    {[rule |-> "procedures_ifreturn", CONDITION |-> c, hasReturnValue_ |-> r,
      VALUE |-> v, STATEMENT_SUFFIX |-> x, id |-> "b1"] :
        c \in CondKids, r \in BOOLEAN, v \in ToKids, x \in Hooks}

\* The blocks of the lifecycle: those whose rules touch the registry or the
\* name table, and those that raise an error.
\* Procedures named like a helper function, like the key of the variable
\* declaration, and like neither.
Blocks_procedures_defreturn ==
    {[rule |-> r, NAME |-> n, STACK |-> d, RETURN |-> v, vars |-> a,
      comment |-> c, STATEMENT_PREFIX |-> h, STATEMENT_SUFFIX |-> <<>>,
      id |-> "b1"] :
        r \in {"procedures_defreturn", "procedures_defnoreturn"},
        n \in {"n", "variables", "math_isPrime"}, d \in Chains("p"),
        v \in {NoChild, Child(<<"x">>, ORDER_ATOMIC)},
        a \in {<<>>, <<"x">>}, c \in {<<>>, <<"note">>}, h \in Hooks}

LifecycleBlocks ==
    {b \in Blocks_controls_repeat_ext :
        /\ ~b.hasField
        /\ b.TIMES.code \in {<<"5">>, <<"i">>, Call("f")}
        /\ b.DO = <<>> \/ b.TIMES.code = <<"5">>}
    \cup {b \in Blocks_math_single :
             b.OP \in {"ROOT", "BOGUS"} /\ b.NUM.code = <<"5">>}
    \cup {b \in Blocks_text_changeCase :
             b.CASE_ = "TITLECASE" /\ b.TEXT.code = <<"myText">>}
    \cup {b \in Blocks_lists_getIndex :
             /\ b.MODE = "GET" /\ b.WHERE \in {"RANDOM", "FROM_END"}
             /\ b.VALUE.code = Call("getList")
             /\ b.AT.code = (IF b.WHERE = "RANDOM" THEN <<>> ELSE <<"5">>)
             /\ b.oneBasedIndex}
    \cup {b \in Blocks_lists_setIndex :
             /\ b.MODE \in {"SET", "BOGUS"} /\ b.WHERE = "FROM_END"
             /\ b.LIST.code = Call("getList") /\ b.TO.code = <<"v">>
             /\ b.AT.code = <<"5">> /\ b.oneBasedIndex}
    \cup {b \in Blocks_controls_flow_statements :
             /\ b.FLOW \in {"BREAK", "BOGUS"} /\ ~b.loop.exists
             /\ b.STATEMENT_PREFIX = <<>> /\ b.STATEMENT_SUFFIX = <<>>}
    \cup {b \in Blocks_logic_compare :
             /\ b.OP = "EQ" /\ b.A = Child(<<"y">>, ORDER_ADDITIVE)
             /\ b.B.code = <<"7">>}
    \cup {b \in Blocks_math_number_property :
             /\ b.PROPERTY = "PRIME"
             /\ b.NUMBER_TO_CHECK.code \in {<<"5">>, <<"i">>}}
    \cup Blocks_variables_get
    \cup {b \in Blocks_procedures_callreturn :
             b.NAME \in {"x", "for"} /\ b.ARGS = <<>>}
    \cup {b \in Blocks_procedures_defreturn :
             /\ b.rule = "procedures_defreturn" /\ b.vars = <<>>
             /\ b.comment = <<>> /\ b.STATEMENT_PREFIX = <<>>
             /\ b.STACK = <<>> /\ ~b.RETURN.conn}

\* The texts handed to finish: the statements of the run's top-level blocks.
FinishCodes ==
    {<<>>, <<"x = 1;", NL, "y = 2;", NL>>, <<"z();">>,
     <<"a();", NL, NL, "b();", NL>>}

(***************************************************************************)
(* The state machine.                                                       *)
(***************************************************************************)
NoBlock == [rule |-> "none"]
NoWorkspace ==
    [variables |-> <<>>, used |-> <<>>, devVars |-> <<>>, procedures |-> <<>>]

\* The generator's registry in the current state.
Reg == Registry(isInitialized, nameDB_, definitions_, functionNames_)

\* The registry becomes g.
SetReg(g) ==
    /\ isInitialized' = g.isInitialized
    /\ nameDB_' = g.nameDB_
    /\ definitions_' = g.definitions_
    /\ functionNames_' = g.functionNames_

\* The run registered something beyond what its init had populated.
Touched(g, workspace) ==
    LET Differs(fresh) ==
            \/ g.nameDB_ # fresh.nameDB_
            \/ g.definitions_ # fresh.definitions_
            \/ g.functionNames_ # fresh.functionNames_
    IN  Differs(CPP_init(Constructed, workspace))

Init ==
    /\ isInitialized = Constructed.isInitialized
    /\ nameDB_ = Constructed.nameDB_
    /\ definitions_ = Constructed.definitions_
    /\ functionNames_ = Constructed.functionNames_
    /\ ws = NoWorkspace
    /\ pc = "idle"
    /\ aborted = FALSE
    /\ dirty = FALSE
    /\ run = <<>>
    /\ blk = NoBlock
    /\ out = NoResult

\* workspaceToCode calls CPP.init(workspace) at the start of a run.
InitRun ==
    /\ pc = "idle"
    /\ \E w \in Workspaces :
          /\ SetReg(CPP_init(Reg, w))
          /\ ws' = w
    /\ pc' = "running"
    /\ run' = <<>>
    /\ blk' = NoBlock
    /\ out' = NoResult
    /\ UNCHANGED <<aborted, dirty>>

\* The rule of block b has run and returned r.  An error it throws
\* propagates out of workspaceToCode: the run ends there and finish is not
\* called.
EmitBlock(b, r) ==
    /\ SetReg(r.g)
    /\ blk' = b
    /\ out' = r.res
    /\ run' = Append(run, b)
    /\ IF r.res.kind = "error"
       THEN /\ pc' = "idle"
            /\ aborted' = TRUE
            /\ dirty' = Touched(r.g, ws)
       ELSE UNCHANGED <<pc, aborted, dirty>>
    /\ UNCHANGED ws

\* One of the blocks of a run of the lifecycle is emitted.
Emit ==
    /\ pc = "running"
    /\ Len(run) < MaxEmit
    /\ \E b \in LifecycleBlocks : EmitBlock(b, blockToCode(Reg, b))

\* workspaceToCode calls CPP.finish(code) at the end of a run.
Finish ==
    /\ pc = "running"
    /\ \E code \in FinishCodes :
          LET f == CPP_finish(Reg, code)
          IN  /\ SetReg(f.g)
              /\ blk' = [rule |-> "finish", code |-> code,
                          definitions_ |-> definitions_]
              /\ out' = Stmt(f.code)
    /\ pc' = "idle"
    /\ aborted' = FALSE
    /\ dirty' = Touched(Reg, ws)
    /\ run' = <<>>
    /\ UNCHANGED ws

Next == InitRun \/ Emit \/ Finish

Spec == Init /\ [][Next]_vars

(***************************************************************************)
(* Runs of one top-level block, over every block of every rule.             *)
(***************************************************************************)
\* The run has started and has emitted no block yet.
AtRunStart == pc = "running" /\ run = <<>>

Rule_controls_if ==
    /\ AtRunStart
    /\ \E b \in Blocks_controls_if : EmitBlock(b, controls_if(Reg, b))
Rule_logic_compare ==
    /\ AtRunStart
    /\ \E b \in Blocks_logic_compare : EmitBlock(b, logic_compare(Reg, b))
Rule_logic_operation ==
    /\ AtRunStart
    /\ \E b \in Blocks_logic_operation : EmitBlock(b, logic_operation(Reg, b))
Rule_text ==
    /\ AtRunStart
    /\ \E b \in Blocks_text : EmitBlock(b, text(Reg, b))
Rule_text_charAt ==
    /\ AtRunStart
    /\ \E b \in Blocks_text_charAt : EmitBlock(b, text_charAt(Reg, b))
Rule_text_getSubstring ==
    /\ AtRunStart
    /\ \E b \in Blocks_text_getSubstring :
          EmitBlock(b, text_getSubstring(Reg, b))
Rule_text_changeCase ==
    /\ AtRunStart
    /\ \E b \in Blocks_text_changeCase : EmitBlock(b, text_changeCase(Reg, b))
Rule_text_trim ==
    /\ AtRunStart
    /\ \E b \in Blocks_text_trim : EmitBlock(b, text_trim(Reg, b))
Rule_math_arithmetic ==
    /\ AtRunStart
    /\ \E b \in Blocks_math_arithmetic : EmitBlock(b, math_arithmetic(Reg, b))
Rule_math_single ==
    /\ AtRunStart
    /\ \E b \in Blocks_math_single : EmitBlock(b, math_single(Reg, b))
Rule_math_constant ==
    /\ AtRunStart
    /\ \E b \in Blocks_math_constant : EmitBlock(b, math_constant(Reg, b))
Rule_math_constant_cmath ==
    /\ AtRunStart
    /\ \E b \in Blocks_math_constant_cmath :
          EmitBlock(b, math_constant_cmath(Reg, b, b.constant))
Rule_math_number_property ==
    /\ AtRunStart
    /\ \E b \in Blocks_math_number_property :
          EmitBlock(b, math_number_property(Reg, b))
Rule_math_on_list ==
    /\ AtRunStart
    /\ \E b \in Blocks_math_on_list : EmitBlock(b, math_on_list(Reg, b))
Rule_controls_repeat_ext ==
    /\ AtRunStart
    /\ \E b \in Blocks_controls_repeat_ext :
          EmitBlock(b, controls_repeat_ext(Reg, b))
Rule_controls_for ==
    /\ AtRunStart
    /\ \E b \in Blocks_controls_for : EmitBlock(b, controls_for(Reg, b))
Rule_controls_flow_statements ==
    /\ AtRunStart
    /\ \E b \in Blocks_controls_flow_statements :
          EmitBlock(b, controls_flow_statements(Reg, b))
Rule_lists_getIndex ==
    /\ AtRunStart
    /\ \E b \in Blocks_lists_getIndex : EmitBlock(b, lists_getIndex(Reg, b))
Rule_lists_setIndex ==
    /\ AtRunStart
    /\ \E b \in Blocks_lists_setIndex : EmitBlock(b, lists_setIndex(Reg, b))
Rule_lists_getSublist ==
    /\ AtRunStart
    /\ \E b \in Blocks_lists_getSublist : EmitBlock(b, lists_getSublist(Reg, b))
Rule_controls_whileUntil ==
    /\ AtRunStart
    /\ \E b \in Blocks_controls_whileUntil :
          EmitBlock(b, controls_whileUntil(Reg, b))
Rule_controls_forEach ==
    /\ AtRunStart
    /\ \E b \in Blocks_controls_forEach :
          EmitBlock(b, controls_forEach(Reg, b))
Rule_math_change ==
    /\ AtRunStart
    /\ \E b \in Blocks_math_change : EmitBlock(b, math_change(Reg, b))
Rule_text_append ==
    /\ AtRunStart
    /\ \E b \in Blocks_text_append : EmitBlock(b, text_append(Reg, b))
Rule_text_print ==
    /\ AtRunStart
    /\ \E b \in Blocks_text_print : EmitBlock(b, text_print(Reg, b))
Rule_variables_get ==
    /\ AtRunStart
    /\ \E b \in Blocks_variables_get : EmitBlock(b, variables_get(Reg, b))
Rule_variables_set ==
    /\ AtRunStart
    /\ \E b \in Blocks_variables_set : EmitBlock(b, variables_set(Reg, b))
Rule_procedures_callreturn ==
    /\ AtRunStart
    /\ \E b \in Blocks_procedures_callreturn :
          EmitBlock(b, procedures_callreturn(Reg, b))
Rule_procedures_callnoreturn ==
    /\ AtRunStart
    /\ \E b \in Blocks_procedures_callnoreturn :
          EmitBlock(b, procedures_callnoreturn(Reg, b))
Rule_procedures_defreturn ==
    /\ AtRunStart
    /\ \E b \in Blocks_procedures_defreturn :
          EmitBlock(b, procedures_defreturn(Reg, b))
Rule_procedures_ifreturn ==
    /\ AtRunStart
    /\ \E b \in Blocks_procedures_ifreturn :
          EmitBlock(b, procedures_ifreturn(Reg, b))

\* A rule asks for the text of one of its value slots at the precedence p.
ValueCall ==
    /\ pc = "running"
    /\ run = <<>>
    /\ \E c \in OrderKids \cup {NoChild}, p \in Orders :
          LET call == [rule |-> "valueToCode", child |-> c, outerOrder |-> p]
          IN  /\ blk' = call
              /\ run' = <<call>>
              /\ out' = Value(valueToCode(c, p), p)
    /\ UNCHANGED <<isInitialized, nameDB_, definitions_, functionNames_, ws,
                   pc, aborted, dirty>>

NextRules ==
    \/ InitRun
    \/ Rule_controls_if
    \/ Rule_logic_compare
    \/ Rule_logic_operation
    \/ Rule_text
    \/ Rule_text_charAt
    \/ Rule_text_getSubstring
    \/ Rule_text_changeCase
    \/ Rule_text_trim
    \/ Rule_math_arithmetic
    \/ Rule_math_single
    \/ Rule_math_constant
    \/ Rule_math_constant_cmath
    \/ Rule_math_number_property
    \/ Rule_math_on_list
    \/ Rule_controls_repeat_ext
    \/ Rule_controls_for
    \/ Rule_controls_flow_statements
    \/ Rule_lists_getIndex
    \/ Rule_lists_setIndex
    \/ Rule_lists_getSublist
    \/ Rule_controls_whileUntil
    \/ Rule_controls_forEach
    \/ Rule_math_change
    \/ Rule_text_append
    \/ Rule_text_print
    \/ Rule_variables_get
    \/ Rule_variables_set
    \/ Rule_procedures_callreturn
    \/ Rule_procedures_callnoreturn
    \/ Rule_procedures_ifreturn
    \/ Rule_procedures_defreturn
    \/ ValueCall
    \/ Finish

SpecRules == Init /\ [][NextRules]_vars

\* A rule asks for the chain that starts at one of the blocks.
ChainCall ==
    /\ AtRunStart
    /\ \E w \in ChainWorkspaces, first \in ChainIds, thisOnly \in BOOLEAN :
          LET Walked(r) ==
                  /\ blk' = [rule |-> "scrub_", chain |-> w, first |-> first,
                             opt_thisOnly |-> thisOnly]
                  /\ out' = r.res
                  /\ run' = r.calls
                  /\ IF r.res.kind = "error"
                     THEN /\ pc' = "idle"
                          /\ aborted' = TRUE
                          /\ dirty' = Touched(Reg, ws)
                     ELSE UNCHANGED <<pc, aborted, dirty>>
          IN  Walked(blockToCodeNext(w, first, thisOnly, MaxStack))
    /\ UNCHANGED <<isInitialized, nameDB_, definitions_, functionNames_, ws>>

NextChain == InitRun \/ ChainCall \/ Finish

SpecChain == Init /\ [][NextChain]_vars

(***************************************************************************)
(* Trees of operator blocks: valueToCode runs the rule of the block in a    *)
(* slot and takes its text and precedence, so a tree is emitted from its    *)
(* leaves up.                                                               *)
(***************************************************************************)
CompareOps == {"EQ", "NEQ", "LT", "LTE", "GT", "GTE"}
ArithmeticOps == {"ADD", "MINUS", "MULTIPLY", "DIVIDE"}
TreeOps == ArithmeticOps \cup CompareOps \cup {"MODULO"}

NumberLeaf(n) == [type |-> "math_number", NUM |-> <<n>>]
OperatorNode(op, l, r) ==
    [type |-> IF op \in CompareOps THEN "logic_compare"
              ELSE IF op = "MODULO" THEN "math_modulo"
              ELSE "math_arithmetic",
     OP |-> op, A |-> l, B |-> r]

\* A leaf, or one operator over two leaves.
Subtrees(n, m) ==
    {NumberLeaf(n)} \cup
    {OperatorNode(op, NumberLeaf(n), NumberLeaf(m)) : op \in TreeOps}

\* The trees of operator blocks over number leaves, three levels deep at
\* most.
Trees ==
    Subtrees("1", "2") \cup
    {OperatorNode(op, l, r) :
        op \in TreeOps, l \in Subtrees("1", "2"), r \in Subtrees("3", "4")}

\* The block at the root of a tree as its rule sees it: each slot holds what
\* the rule of the block below returned.
RECURSIVE TreeBlock(_, _)
TreeBlock(g, t) ==
    LET Kid(r) == Child(r.code, r.order)
        Slot(s) == Kid(blockToCode(g, TreeBlock(g, s)).res)
    IN  CASE t.type = "math_number" -> [rule |-> "math_number", NUM |-> t.NUM]
          [] t.type = "math_modulo" ->
               [rule |-> "math_modulo", DIVIDEND |-> Slot(t.A),
                DIVISOR |-> Slot(t.B)]
          [] OTHER ->
               [rule |-> t.type, OP |-> t.OP, A |-> Slot(t.A),
                B |-> Slot(t.B)]

\* One tree is emitted.
TreeCall ==
    /\ AtRunStart
    /\ \E t \in Trees :
          EmitBlock([rule |-> "tree", tree |-> t],
                    blockToCode(Reg, TreeBlock(Reg, t)))

NextTrees == InitRun \/ TreeCall \/ Finish

SpecTrees == Init /\ [][NextTrees]_vars

(***************************************************************************)
(* Calls of the generator's pure helpers, quote_ and getAdjusted.           *)
(***************************************************************************)
AdjustKids ==
    AtKids \cup
    {Child(<<"1">>, ORDER_ATOMIC), Child(<<"2", ".", "5">>, ORDER_ATOMIC),
     Child(<<"0", ".", "5">>, ORDER_ATOMIC),
     Child(<<"a", " * ", "b">>, ORDER_MULTIPLICATIVE),
     Child(<<"a", " ? ", "b", " : ", "c">>, ORDER_CONDITIONAL),
     Child(<<"-", "double.infinity">>, ORDER_UNARY_PREFIX)}

\* The text the slot's child is asked for at the precedence p, or the
\* default index of an unconnected slot.
AtOperand(child, oneBasedIndex, p) ==
    OrElse(valueToCode(child, p), IF oneBasedIndex THEN <<"1">> ELSE <<"0">>)

QuoteCall ==
    /\ pc = "idle"
    /\ \E s \in Strings :
          /\ blk' = [rule |-> "quote_", string |-> s]
          /\ out' = [kind |-> "text", code |-> quote_(s), order |-> 0]
    /\ pc' = "called"
    /\ UNCHANGED <<isInitialized, nameDB_, definitions_, functionNames_, ws,
                   aborted, dirty, run>>

AdjustCall ==
    /\ pc = "idle"
    /\ \E c \in AdjustKids, o \in BOOLEAN,
          d \in {Undefined} \cup 0..MaxDelta, n \in BOOLEAN,
          p \in {Undefined} \cup Orders :
          LET Returned(r) ==
                  [kind |-> "adjusted", isNum |-> r.isNum, num |-> r.num,
                   code |-> r.code, order |-> 0,
                   requested |->
                       AdjustedOuterOrder(EffectiveDelta(o, d), n,
                                          OrderOrNone(p))]
          IN  /\ blk' = [rule |-> "getAdjusted", child |-> c,
                         oneBasedIndex |-> o, opt_delta |-> d,
                         opt_negate |-> n, opt_order |-> p]
              /\ out' = Returned(getAdjusted(c, o, d, n, p))
    /\ pc' = "called"
    /\ UNCHANGED <<isInitialized, nameDB_, definitions_, functionNames_, ws,
                   aborted, dirty, run>>

\* The caller takes the result.
Return ==
    /\ pc = "called"
    /\ pc' = "idle"
    /\ blk' = NoBlock
    /\ out' = NoResult
    /\ UNCHANGED <<isInitialized, nameDB_, definitions_, functionNames_, ws,
                   aborted, dirty, run>>

NextCalls == QuoteCall \/ AdjustCall \/ Return

SpecCalls == Init /\ [][NextCalls]_vars

(***************************************************************************)
(* Properties.                                                              *)
(***************************************************************************)
\* The text a slot's child yields once valueToCode has parenthesised it as
\* the precedence table asks: in parentheses iff q > p.
Expected(child, p) ==
    IF child.order > p THEN Parens(child.code) ELSE child.code

\* C1: for every required precedence p and every produced precedence q of
\* the table, valueToCode on a connected slot returns the child's text in
\* parentheses when q > p and unchanged when q <= p; the operands of
\* logic_compare, requested at the precedence the rule returns, show it.
C1_ParenthesisedIffWeaker ==
    /\ (blk.rule = "valueToCode" /\ blk.child.conn) =>
          out.code = Expected(blk.child, blk.outerOrder)
    /\ (blk.rule = "logic_compare" /\ blk.A.conn /\ out.kind = "value") =>
          LET arg == Expected(blk.A, out.order)
          IN  /\ Len(out.code) > Len(arg)
              /\ SubSeq(out.code, 1, Len(arg)) = arg
              /\ out.code[Len(arg) + 1] = " "

\* C1 witness: logic_compare returned its first operand in parentheses.
C1_Witness_Parenthesised ==
    /\ blk.rule = "logic_compare"
    /\ out.kind = "value"
    /\ blk.A.conn
    /\ blk.A.order > out.order
    /\ out.code[1] = "("

\* Whether one of the option fields of the block holds a value that is
\* not among the cases of its rule.
UnknownOption(b) ==
    CASE b.rule = "logic_compare" ->
           b.OP \notin {"EQ", "NEQ", "LT", "LTE", "GT", "GTE"}
      [] b.rule = "logic_operation" -> b.OP \notin {"AND", "OR"}
      [] b.rule = "text_trim" -> b.MODE \notin {"LEFT", "RIGHT", "BOTH"}
      [] b.rule = "text_changeCase" ->
           b.CASE_ \notin {"UPPERCASE", "LOWERCASE", "TITLECASE"}
      [] b.rule = "math_arithmetic" ->
           b.OP \notin {"ADD", "MINUS", "MULTIPLY", "DIVIDE", "POWER"}
      [] b.rule = "math_single" -> b.OP = "BOGUS"
      [] b.rule = "math_on_list" -> b.OP = "BOGUS"
      [] b.rule = "controls_flow_statements" ->
           b.FLOW \notin {"BREAK", "CONTINUE"}
      [] b.rule \in {"text_charAt", "lists_getIndex", "lists_setIndex"} ->
           b.WHERE = "BOGUS" \/ (b.rule # "text_charAt" /\ b.MODE = "BOGUS")
      [] b.rule \in {"text_getSubstring", "lists_getSublist"} ->
           b.WHERE1 = "BOGUS" \/ b.WHERE2 = "BOGUS"
      [] OTHER -> FALSE

\* C2: a rule handed an option value outside its known set raises an
\* error; it returns no text.
C2_UnknownOptionRaises ==
    UnknownOption(blk) => out.kind = "error"

\* C3: decoding quote_(s) as a C++ string literal yields s.
C3_QuoteRoundTrip ==
    blk.rule = "quote_" => DecodeLiteral(out.code) = blk.string

\* The case of C4: a dynamic operand, one-based indexing, delta 0, not
\* negated.
C4_Case ==
    /\ blk.rule = "getAdjusted"
    /\ blk.oneBasedIndex
    /\ blk.opt_delta \in {Undefined, 0}
    /\ ~blk.opt_negate
    /\ ~isNumber(AtOperand(blk.child, TRUE, ORDER_ADDITIVE))

\* The text 'n - 1' of C4.
C4_Text == valueToCode(blk.child, ORDER_ADDITIVE) \o <<" - ", "1">>

EffDelta(call) ==
    (IF call.opt_delta = Undefined THEN 0 ELSE call.opt_delta)
        - (IF call.oneBasedIndex THEN 1 ELSE 0)

\* C5: when the text of the slot is a numeric literal k, or the slot is
\* unconnected (k = 1 under one-based indexing, else 0), getAdjusted returns
\* the number k + delta - (1 if oneBasedIndex else 0), negated when
\* opt_negate is set, and no text.  Numbers are compared in tenths.
C5_LiteralFolded ==
    LET k == AtOperand(blk.child, blk.oneBasedIndex, out.requested)
    IN  (blk.rule = "getAdjusted" /\ isNumber(k)) =>
            /\ out.isNum
            /\ out.code = <<>>
            /\ 10 * out.num =
                  (IF blk.opt_negate THEN 0 - 1 ELSE 1)
                      * (NumberTenths(k) + 10 * EffDelta(blk))

\* The precedence C6 says the operand is requested at.
C6_Claimed(call) ==
    IF EffDelta(call) # 0 THEN ORDER_ADDITIVE
    ELSE IF call.opt_negate THEN ORDER_UNARY_PREFIX
    ELSE IF call.opt_order = Undefined THEN ORDER_NONE
    ELSE call.opt_order

\* C6: getAdjusted requests its operand at additive precedence when the
\* effective delta is non-zero, at unary-prefix precedence when it is zero
\* and opt_negate is set, and at the caller's precedence (NONE when omitted)
\* otherwise; in the last case a dynamic operand comes back as valueToCode
\* returned it at that precedence.
C6_RequestedPrecedence ==
    blk.rule = "getAdjusted" =>
        /\ out.requested = C6_Claimed(blk)
        /\ (EffDelta(blk) = 0 /\ ~blk.opt_negate /\ ~out.isNum) =>
              out.code = AtOperand(blk.child, blk.oneBasedIndex,
                                   C6_Claimed(blk))

\* The value slots of the blocks of the rules C7 names.
OperandsOf(b) ==
    CASE b.rule = "lists_getIndex" -> {b.VALUE, b.AT}
      [] b.rule = "lists_setIndex" -> {b.LIST, b.TO, b.AT}
      [] b.rule = "lists_getSublist" -> {b.LIST, b.AT1, b.AT2}
      [] b.rule = "text_getSubstring" -> {b.STRING, b.AT1, b.AT2}
      [] b.rule = "text_charAt" -> {b.VALUE, b.AT}
      [] b.rule = "controls_repeat_ext" -> {b.TIMES}
      [] b.rule = "controls_for" -> {b.FROM, b.TO, b.BY_}
      [] OTHER -> {}

\* A connected operand whose text is neither a bare identifier nor a
\* numeric literal.
IsDynamic(child) ==
    child.conn /\ ~IsWord(child.code) /\ ~isNumber(child.code)

\* C7: in the output of lists_getIndex, lists_setIndex, lists_getSublist,
\* text_getSubstring, text_charAt, controls_repeat_ext and controls_for,
\* under every option combination, the text of a dynamic operand occurs
\* exactly once.
C7_DynamicOperandOnce ==
    out.kind \in {"value", "stmt"} =>
        \A c \in OperandsOf(blk) :
            IsDynamic(c) => Occurrences(c.code, out.code) = 1

\* C7 witness: lists_setIndex wrote at an index counted from the end of a
\* dynamic list, which the text names twice.
C7_Witness_ListBoundOnce ==
    /\ blk.rule = "lists_setIndex"
    /\ blk.WHERE = "FROM_END"
    /\ blk.MODE = "SET"
    /\ IsDynamic(blk.LIST)
    /\ IsDynamic(blk.AT)
    /\ out.kind = "stmt"
    /\ Occurrences(<<"tmp_list">>, out.code) = 3

\* The case of C8: two connected conditions A and B, an ELSE input, a chain
\* in each statement slot, no statement hooks.
C8_Case ==
    /\ blk.rule = "controls_if"
    /\ Len(blk.IF_) = 2
    /\ blk.IF_[1].conn /\ blk.IF_[2].conn
    /\ blk.hasElse
    /\ blk.DO[1] # <<>> /\ blk.DO[2] # <<>> /\ blk.ELSE_ # <<>>
    /\ blk.STATEMENT_PREFIX = <<>> /\ blk.STATEMENT_SUFFIX = <<>>

\* C8 as stated: the text is
\* 'if (A) {\n' DO0 '\n}\nelse if (B) {\n' DO1 '\n}\nelse {\n' ELSE '\n}\n'.
C8_TextAsStated ==
    C8_Case =>
        out.code =
            <<"if (">> \o blk.IF_[1].code \o <<") {", NL>> \o blk.DO[1]
                \o <<NL, "}", NL, "else ", "if (">> \o blk.IF_[2].code
                \o <<") {", NL>> \o blk.DO[2]
                \o <<NL, "}", NL, "else {", NL>> \o blk.ELSE_
                \o <<NL, "}", NL>>

\* C8 amended: the text is
\* 'if (A) {\n' DO0 '}else if (B) {\n' DO1 '} else {\n' ELSE '}\n',
\* and each chain occurs in it once.
C8_TextAsEmitted ==
    C8_Case =>
        /\ out.code =
              <<"if (">> \o blk.IF_[1].code \o <<") {", NL>> \o blk.DO[1]
                  \o <<"}", "else ", "if (">> \o blk.IF_[2].code
                  \o <<") {", NL>> \o blk.DO[2]
                  \o <<"}", " else {", NL>> \o blk.ELSE_ \o <<"}", NL>>
        /\ \A chain \in {blk.DO[1], blk.DO[2], blk.ELSE_} :
              Occurrences(chain, out.code) = 1

\* C8 witness: controls_if emitted such a block.
C8_Witness_TwoBranchesAndElse ==
    /\ C8_Case
    /\ out.kind = "stmt"
    /\ pc = "running"

\* The identifiers of a workspace that init populates the name table with.
PopulatedIds(workspace) ==
    {workspace.variables[k] : k \in 1..Len(workspace.variables)}
        \cup {workspace.procedures[k] : k \in 1..Len(workspace.procedures)}
        \cup {workspace.devVars[k] : k \in 1..Len(workspace.devVars)}
        \cup {workspace.used[k] : k \in 1..Len(workspace.used)}

\* C9: at the start of a run's emissions, whatever the earlier runs did,
\* the name table holds only the names this run's init populated it with,
\* and the registry holds no helper, import or generated name.
C9_RunStartsClean ==
    (pc = "running" /\ run = <<>>) =>
        /\ \A nm \in nameDB_.used : \E id \in PopulatedIds(ws) : nm = id
        /\ \A e \in nameDB_.db : e.id \in PopulatedIds(ws)
        /\ functionNames_ = {}
        /\ Keys(definitions_) \subseteq {"variables"}

\* C9 witness: a run starts after a complete run that had registered a
\* helper, an import or a generated name.
C9_Witness_StartAfterCompleteRun ==
    /\ pc = "running"
    /\ run = <<>>
    /\ dirty
    /\ ~aborted

\* C10: in the run after one that ended in an error, the registry and the
\* result of every emission are those the same blocks give on a generator
\* that was just constructed.
C10_AbortLeavesNoTrace ==
    (aborted /\ pc = "running") =>
        LET Same(fresh) == Reg = fresh.g /\ out = fresh.res
        IN  Same(Replay(CPP_init(Constructed, ws), run))

\* C10 witness: the run before ended in an error after registering a
\* definition, and this run has emitted a block that registers a helper.
C10_Witness_RunAfterAbort ==
    /\ aborted
    /\ dirty
    /\ pc = "running"
    /\ run # <<>>
    /\ out.kind = "value"
    /\ functionNames_ # {}

(***************************************************************************)
(* The name table within a run.                                             *)
(***************************************************************************)
\* The position of the first token tok in the text t.
IndexOf(t, tok) ==
    CHOOSE i \in 1..Len(t) : t[i] = tok /\ \A k \in 1..(i - 1) : t[k] # tok

\* The loop variable of an emitted counting loop: what stands between
\* 'for (int ' and ' = 0; '.
LoopVariable(code) ==
    SubSeq(code, IndexOf(code, "for (int ") + 1, IndexOf(code, " = 0; ") - 1)

\* Two logical identifiers of one kind never have the same spelling, one
\* logical identifier has one name, and every name of the table was handed
\* out.
NameTableInjective(ndb) ==
    /\ \A e1, e2 \in ndb.db :
          e1.kind = e2.kind =>
              (e1.id = e2.id <=> Spelling(e1.name) = Spelling(e2.name))
    /\ \A e \in ndb.db : Spelling(e.name) \in ndb.used

\* A step of a run's emission: the step of a rule, not of init or finish.
EmissionStep == pc = "running" /\ run' # <<>>

HelperKey(b) ==
    CASE b.rule = "math_number_property" /\ b.PROPERTY = "PRIME" ->
           "math_isPrime"
      [] b.rule = "text_changeCase" /\ b.CASE_ = "TITLECASE" ->
           "text_toTitleCase"
      [] b.rule = "lists_getIndex" /\ b.MODE = "GET" /\ b.WHERE = "FROM_END" ->
           "lists_get_from_end"
      [] b.rule = "lists_getIndex" /\ b.MODE = "GET" /\ b.WHERE = "RANDOM" ->
           "lists_get_random_item"
      [] OTHER -> ""

\* The text t begins with the text p.
StartsWith(t, p) == Len(t) >= Len(p) /\ SubSeq(t, 1, Len(p)) = p

\* C12: provideFunction_ is idempotent per key within a run.  In every
\* step of a run the generated name and the definition of every helper
\* registered before the step stay what they were, each registered key has
\* one generated name and one definition, and a rule that asks for a
\* helper calls it by the name registered under its key.
C12_HelperRegisteredOnce ==
    [][EmissionStep =>
          /\ functionNames_ \subseteq functionNames_'
          /\ \A e \in definitions_ :
                e.key \in Keys(functionNames_) => e \in definitions_'
          /\ \A k \in Keys(functionNames_') :
                /\ Cardinality({e \in functionNames_' : e.key = k}) = 1
                /\ Cardinality({e \in definitions_' : e.key = k}) = 1
          /\ (HelperKey(blk') # "" /\ out'.kind = "value") =>
                /\ Has(functionNames_', HelperKey(blk'))
                /\ StartsWith(out'.code,
                              Get(functionNames_', HelperKey(blk'))
                                  \o <<"(">>)
      ]_vars

\* C12 witness: two blocks of one run asked for math_isPrime, the second
\* with another operand than the first.
C12_Witness_SecondRequest ==
    /\ pc = "running"
    /\ Len(run) = 2
    /\ HelperKey(run[1]) = "math_isPrime"
    /\ HelperKey(blk) = "math_isPrime"
    /\ run[1] # blk
    /\ out.kind = "value"
    /\ Keys(functionNames_) = {"math_isPrime"}

(***************************************************************************)
(* Reserved words.                                                          *)
(***************************************************************************)
\* Keywords of C++ that a generated program cannot use as a name.
CppKeywords == {"auto", "bool", "int", "for", "while"}

\* C13: a variable logically named as a C++ keyword is never emitted as
\* exactly that keyword: variables_get returns another text for it.
C13_KeywordNeverEmitted ==
    (/\ blk.rule = "variables_get"
     /\ blk.VAR \in CppKeywords
     /\ out.kind = "value") =>
        Spelling(out.code) # blk.VAR

(***************************************************************************)
(* The text finish returns.                                                 *)
(***************************************************************************)
\* C14: the text finish returns holds every definition the registry held
\* when finish was called.
C14_FinishHoldsDefinitions ==
    blk.rule = "finish" =>
        \A e \in blk.definitions_ : Occurrences(e.def, out.code) > 0

(***************************************************************************)
(* Chains of blocks.                                                        *)
(***************************************************************************)
\* The texts of the blocks ids, one after the other, each behind its
\* comment.
RECURSIVE ChainText(_, _)
ChainText(w, ids) ==
    IF ids = <<>> THEN <<>>
    ELSE (IF w.comment[Head(ids)] # <<>>
          THEN <<"// ">> \o w.comment[Head(ids)] \o <<NL>>
          ELSE <<>>)
             \o OwnCode(Head(ids)) \o ChainText(w, Tail(ids))

\* C15: the rule of no block of a chain runs twice, a chain without a
\* cycle is emitted block by block in chain order (the first block alone
\* under opt_thisOnly), and a walk that comes back to a block it has
\* emitted ends there with an error.
C15_ChainOnceInOrder ==
    blk.rule = "scrub_" =>
        /\ \A i, j \in 1..Len(run) : i # j => run[i] # run[j]
        /\ out.kind = "stmt" => out.code = ChainText(blk.chain, run)
        /\ out.kind = "error" => blk.chain.next[run[Len(run)]] \in
                                     {run[k] : k \in 1..Len(run)}

(***************************************************************************)
(* Unconnected value slots.                                                 *)
(***************************************************************************)
\* The slot c, holding the literal dflt when nothing is connected to it.
Filled(c, dflt) == IF c = NoChild THEN Child(dflt, ORDER_ATOMIC) ELSE c

\* The block b with the default literal of each operand position in its
\* unconnected slots.
WithDefaults(b) ==
    CASE b.rule = "controls_if" ->
           [b EXCEPT !.IF_ = [k \in 1..Len(@) |-> Filled(@[k], <<"false">>)]]
      [] b.rule = "controls_whileUntil" ->
           [b EXCEPT !.BOOL = Filled(@, <<"false">>)]
      [] b.rule \in {"logic_compare", "math_arithmetic"} ->
           [b EXCEPT !.A = Filled(@, <<"0">>), !.B = Filled(@, <<"0">>)]
      [] b.rule = "controls_repeat_ext" ->
           [b EXCEPT !.TIMES = IF b.hasField THEN @ ELSE Filled(@, <<"0">>)]
      [] b.rule = "controls_for" ->
           [b EXCEPT !.FROM = Filled(@, <<"0">>), !.TO = Filled(@, <<"0">>),
                     !.BY_ = Filled(@, <<"1">>)]

\* What the rule of block b returns for b with its slots filled.
FilledResult(g, b) ==
    CASE b.rule = "controls_if" -> controls_if(g, WithDefaults(b))
      [] b.rule = "controls_whileUntil" ->
           controls_whileUntil(g, WithDefaults(b))
      [] b.rule = "logic_compare" -> logic_compare(g, WithDefaults(b))
      [] b.rule = "math_arithmetic" -> math_arithmetic(g, WithDefaults(b))
      [] b.rule = "controls_repeat_ext" ->
           controls_repeat_ext(g, WithDefaults(b))
      [] b.rule = "controls_for" -> controls_for(g, WithDefaults(b))

\* C16: valueToCode yields the empty text for an unconnected slot and
\* raises no error, and a rule gives a block with unconnected slots the
\* text it gives the block whose slots hold the default literals: false
\* for a condition, 0 for an operand and for the repeat count, 1 for the
\* step of controls_for.  So it throws for the one only if it throws for
\* the other.
C16_UnconnectedSlotDefault ==
    [][AtRunStart =>
          /\ (blk'.rule = "valueToCode" /\ blk'.child = NoChild) =>
                out' = Value(<<>>, blk'.outerOrder)
          /\ blk'.rule \in {"controls_if", "controls_whileUntil",
                            "logic_compare", "math_arithmetic",
                            "controls_repeat_ext", "controls_for"} =>
                LET Same(r) == out' = r.res
                IN  Same(FilledResult(Reg, blk'))
      ]_vars

\* C16 witness: controls_for ran on a block with no slot connected.
C16_Witness_NothingConnected ==
    /\ blk.rule = "controls_for"
    /\ blk.FROM = NoChild /\ blk.TO = NoChild /\ blk.BY_ = NoChild
    /\ out.kind = "stmt"
    /\ Occurrences(<<" = ", "0", "; ">>, out.code) = 1

(***************************************************************************)
(* The counting loop of controls_repeat_ext.                                *)
(***************************************************************************)
\* The counting loop over variable v up to the text n around the body.
CountingLoop(v, n, body) ==
    <<"for (int ">> \o v \o <<" = 0; ">> \o v \o <<" < ">> \o n \o <<"; ">>
        \o v \o <<"++) {", NL>> \o body \o <<"}", NL>>

\* C17: a repeat block whose count is the literal 5 emits exactly the
\* counting loop up to 5 around its body, over a variable that no name
\* handed out before the block has; a count that is a number or a bare
\* identifier is used as it is, with no repeat_end binding before the
\* loop; and a repeat block emitted right after another one gets another
\* loop variable.
C17_RepeatLoopText ==
    [][(/\ EmissionStep
        /\ blk'.rule = "controls_repeat_ext"
        /\ out'.kind = "stmt") =>
          /\ Spelling(LoopVariable(out'.code)) \notin nameDB_.used
          /\ blk'.TIMES.code \in {<<"5">>, <<"i">>} =>
                out'.code = CountingLoop(LoopVariable(out'.code),
                                         blk'.TIMES.code, blk'.DO)
          /\ (/\ run # <<>>
              /\ blk.rule = "controls_repeat_ext"
              /\ out.kind = "stmt") =>
                Spelling(LoopVariable(out.code))
                    # Spelling(LoopVariable(out'.code))
      ]_vars

\* C17 witness: the second repeat block of a run counts to the literal 5
\* around a body, in a workspace that has a variable named count.
C17_Witness_SecondRepeat ==
    /\ pc = "running"
    /\ Len(run) = 2
    /\ run[1].rule = "controls_repeat_ext"
    /\ blk.rule = "controls_repeat_ext"
    /\ blk.TIMES.code = <<"5">>
    /\ blk.DO # <<>>
    /\ out.code = CountingLoop(<<"count", "3">>, <<"5">>, blk.DO)

(***************************************************************************)
(* Two minus signs in a row.                                                *)
(***************************************************************************)
\* C18: the text getAdjusted returns for a negated dynamic operand never
\* holds two minus signs next to each other.
C18_NoDoubleMinus ==
    (blk.rule = "getAdjusted" /\ blk.opt_negate /\ ~out.isNum) =>
        Occurrences(<<"-", "-">>, out.code) = 0

(***************************************************************************)
(* math_constant.                                                           *)
(***************************************************************************)
\* C19: for each of the six values of the block's CONSTANT field,
\* math_constant returns the pair its table lists for that value, and
\* raises no error.
C19_ConstantFromField ==
    (blk.rule = "math_constant" /\ blk.CONSTANT_ \in ConstantNames) =>
        out = (IF blk.module = "math.js" THEN MathConstants
               ELSE CmathConstants)[blk.CONSTANT_]

(***************************************************************************)
(* Statements end their line.                                               *)
(***************************************************************************)
StatementRules ==
    {"controls_if", "controls_repeat_ext", "controls_whileUntil",
     "controls_for", "controls_forEach", "controls_flow_statements",
     "variables_set", "math_change", "text_append", "text_print",
     "procedures_callnoreturn", "procedures_ifreturn", "lists_setIndex",
     "lists_getIndex"}

\* C20: the text a statement rule returns ends with a newline, for every
\* block on which the rule returns a statement (lists_getIndex does so in
\* REMOVE mode).
C20_StatementEndsWithNewline ==
    (blk.rule \in StatementRules /\ out.kind = "stmt") =>
        /\ out.code # <<>>
        /\ out.code[Len(out.code)] = NL

\* C20 witness: lists_getIndex returned a statement in REMOVE mode.
C20_Witness_RemoveStatement ==
    /\ blk.rule = "lists_getIndex"
    /\ blk.MODE = "REMOVE"
    /\ out.kind = "stmt"
    /\ out.code[Len(out.code)] = NL


\* The named precedence levels from the tightest to the weakest, as the
\* table lists them.
LevelsInOrder ==
    <<ORDER_ATOMIC, ORDER_SCOPE, ORDER_UNARY_POSTFIX, ORDER_UNARY_PREFIX,
      ORDER_PTR_TO_MEM, ORDER_MULTIPLICATIVE, ORDER_ADDITIVE, ORDER_SHIFT,
      ORDER_RELATIONAL, ORDER_EQUALITY, ORDER_BITWISE_AND, ORDER_BITWISE_XOR,
      ORDER_BITWISE_OR, ORDER_LOGICAL_AND, ORDER_LOGICAL_OR,
      ORDER_CONDITIONAL, ORDER_COMMA, ORDER_NONE>>

\* The level a call of getAdjusted is made at: NONE when omitted.
CallerOrder(call) ==
    IF call.opt_order = Undefined THEN ORDER_NONE ELSE call.opt_order

\* C21: the named precedence levels are totally ordered, lower binding
\* tighter, with CONDITIONAL = ASSIGNMENT; and the comparisons getAdjusted
\* makes come out as that order says: the operand of a call without delta
\* and negation is parenthesised by valueToCode iff it binds weaker than the
\* caller's level, and an adjusted or negated text is wrapped iff the
\* caller's level is not tighter than the level of the text, for the
\* fractional level SCOPE as for the others.
C21_ComparisonsRespectOrder ==
    /\ \A i \in 1..(Len(LevelsInOrder) - 1) :
          LevelsInOrder[i] < LevelsInOrder[i + 1]
    /\ ORDER_CONDITIONAL = ORDER_ASSIGNMENT
    /\ (blk.rule = "getAdjusted" /\ ~out.isNum) =>
          LET inner == AdjustedInnerOrder(EffDelta(blk), blk.opt_negate)
          IN  IF inner = Undefined
              THEN out.code = AtOperand(blk.child, blk.oneBasedIndex,
                                        CallerOrder(blk))
              ELSE (Head(out.code) = "(" /\ out.code[Len(out.code)] = ")")
                       <=> CallerOrder(blk) >= inner


\* The binary operators of the target language, as they are spelt in the
\* emitted text, with their precedence levels.
BinaryOperators ==
    {[tok |-> " + ", order |-> ORDER_ADDITIVE],
     [tok |-> " - ", order |-> ORDER_ADDITIVE],
     [tok |-> " * ", order |-> ORDER_MULTIPLICATIVE],
     [tok |-> " / ", order |-> ORDER_MULTIPLICATIVE],
     [tok |-> " % ", order |-> ORDER_MULTIPLICATIVE],
     [tok |-> "<", order |-> ORDER_RELATIONAL],
     [tok |-> "<=", order |-> ORDER_RELATIONAL],
     [tok |-> ">", order |-> ORDER_RELATIONAL],
     [tok |-> ">=", order |-> ORDER_RELATIONAL],
     [tok |-> "==", order |-> ORDER_EQUALITY],
     [tok |-> "!=", order |-> ORDER_EQUALITY]}

IsBinaryOperator(tok) == \E o \in BinaryOperators : o.tok = tok
OrderOfOperator(tok) == (CHOOSE o \in BinaryOperators : o.tok = tok).order

\* How many operators on top of the stack (its head) are applied before the
\* operator tok: those that bind at least as tightly, operators of one level
\* grouping from the left.
RECURSIVE Applied(_, _)
Applied(stack, tok) ==
    IF stack = <<>> \/ Head(stack) = "(" THEN 0
    ELSE IF OrderOfOperator(Head(stack)) > OrderOfOperator(tok) THEN 0
    ELSE 1 + Applied(Tail(stack), tok)

\* The operators on the stack down to the first open parenthesis.
RECURSIVE Enclosed(_)
Enclosed(stack) ==
    IF stack = <<>> \/ Head(stack) = "(" THEN 0
    ELSE 1 + Enclosed(Tail(stack))

\* The emitted text parsed with the precedence table and left
\* associativity: its operand grouping in postfix notation.
RECURSIVE ParsePostfix(_, _, _)
ParsePostfix(tokens, stack, output) ==
    IF tokens = <<>> THEN output \o stack
    ELSE LET tok == Head(tokens)
             rest == Tail(tokens)
             Pop(k, push) ==
                 ParsePostfix(rest,
                              push \o SubSeq(stack, k + 1, Len(stack)),
                              output \o SubSeq(stack, 1, k))
         IN  IF tok = " " THEN ParsePostfix(rest, stack, output)
             ELSE IF tok = "(" THEN Pop(0, <<"(">>)
             ELSE IF tok = ")"
             THEN ParsePostfix(rest,
                               SubSeq(stack, Enclosed(stack) + 2, Len(stack)),
                               output \o SubSeq(stack, 1, Enclosed(stack)))
             ELSE IF IsBinaryOperator(tok)
             THEN Pop(Applied(stack, tok), <<tok>>)
             ELSE ParsePostfix(rest, stack, output \o <<tok>>)

\* The operand grouping of a block tree in postfix notation.
RECURSIVE TreePostfix(_)
TreePostfix(t) ==
    IF t.type = "math_number" THEN t.NUM
    ELSE TreePostfix(t.A) \o TreePostfix(t.B)
             \o <<CASE t.OP = "ADD" -> " + " [] t.OP = "MINUS" -> " - "
                    [] t.OP = "MULTIPLY" -> " * " [] t.OP = "DIVIDE" -> " / "
                    [] t.OP = "MODULO" -> " % " [] t.OP = "EQ" -> "=="
                    [] t.OP = "NEQ" -> "!=" [] t.OP = "LT" -> "<"
                    [] t.OP = "LTE" -> "<=" [] t.OP = "GT" -> ">"
                    [] t.OP = "GTE" -> ">=">>

\* C22: for every tree of math_arithmetic, math_modulo and logic_compare
\* blocks over atomic leaves, three levels deep at most, the emitted text,
\* parsed with the precedence table and left associativity, has the operand
\* grouping of the block tree, also where a block of equal precedence sits
\* in the right operand slot.
C22_GroupingPreserved ==
    blk.rule = "tree" =>
        ParsePostfix(out.code, <<>>, <<>>) = TreePostfix(blk.tree)


\* C23: isInitialized is true exactly while a run is in progress: false
\* before the first init, true from init until finish, and false whenever
\* no run is in progress, also after a run that a rule ended by raising an
\* error.
C23_InitializedWhileRunning == isInitialized <=> pc = "running"


\* The number of backslashes that end the text t.
RECURSIVE TrailingBackslashes(_)
TrailingBackslashes(t) ==
    IF t = <<>> \/ t[Len(t)] # BS THEN 0
    ELSE 1 + TrailingBackslashes(SubSeq(t, 1, Len(t) - 1))

\* C24: for every input over an alphabet with backslash, double quote,
\* newline and '$', the result of quote_ begins and ends with a double
\* quote, every double quote strictly between the two is preceded by an odd
\* number of backslashes, and no other input gives the same result.
C24_LiteralNotEndedEarly ==
    blk.rule = "quote_" =>
        LET lit == out.code
        IN  /\ Len(lit) >= 2
            /\ Head(lit) = DQ
            /\ lit[Len(lit)] = DQ
            /\ \A k \in 2..(Len(lit) - 1) :
                  lit[k] = DQ =>
                      TrailingBackslashes(SubSeq(lit, 2, k - 1)) % 2 = 1
            /\ \A s \in Strings : s # blk.string => quote_(s) # lit

\* C24 witness: the input holds a backslash right before a double quote,
\* and the double quote comes out behind three backslashes.
C24_Witness_QuoteAfterBackslash ==
    /\ blk.rule = "quote_"
    /\ blk.string = <<BS, DQ>>
    /\ out.code = <<DQ, BS, BS, BS, DQ, DQ>>


\* The logical operators of the target language.
Holds(operator, x, y) == IF operator = "&&" THEN x /\ y ELSE x \/ y

\* The identity element of a logical operator: the truth value that, put on
\* either side, leaves the value of the other operand as it is.
IdentityOf(operator) ==
    CHOOSE e \in BOOLEAN :
        \A v \in BOOLEAN :
            Holds(operator, e, v) = v /\ Holds(operator, v, e) = v

BoolText(v) == IF v THEN <<"true">> ELSE <<"false">>

\* C25: logic_operation emits 'false && false' (AND) or 'false || false'
\* (OR) when both operands are unconnected; with exactly one unconnected it
\* puts the operator's identity element in its place, next to the connected
\* operand kept whole, so the expression has that operand's truth value;
\* with both connected it emits A op B; always at the operator's own
\* precedence.
C25_LogicOperationDefaults ==
    (blk.rule = "logic_operation" /\ blk.OP \in {"AND", "OR"}) =>
        LET operator == IF blk.OP = "AND" THEN "&&" ELSE "||"
            level == IF blk.OP = "AND" THEN ORDER_LOGICAL_AND
                     ELSE ORDER_LOGICAL_OR
            Whole(c) == IF c.order > level THEN Parens(c.code) ELSE c.code
            Operand(c, other) ==
                IF c.conn THEN Whole(c)
                ELSE IF other.conn THEN BoolText(IdentityOf(operator))
                ELSE <<"false">>
        IN  out = Value(Operand(blk.A, blk.B) \o <<" ", operator, " ">>
                            \o Operand(blk.B, blk.A),
                        level)

\* C25 witness: an AND whose first operand is unconnected and whose second
\* is a conditional expression.
C25_Witness_IdentityForAnd ==
    /\ blk.rule = "logic_operation"
    /\ blk.OP = "AND"
    /\ ~blk.A.conn
    /\ blk.B.conn
    /\ out.code = <<"true", " ", "&&", " ", "(", "c", " ? ", "d", " : ", "e",
                    ")">>


\* C26: controls_flow_statements emits the block's statement prefix (if
\* STATEMENT_PREFIX is set), then the block's statement suffix (if
\* STATEMENT_SUFFIX is set), then the enclosing loop's statement prefix (if
\* STATEMENT_PREFIX is set and a surrounding loop exists that does not
\* suppress prefix and suffix), then 'break;' or 'continue;' and a newline;
\* with neither hook set the output is the keyword line alone; any other
\* FLOW raises 'Unknown flow statement.'.
C26_FlowStatementText ==
    blk.rule = "controls_flow_statements" =>
        LET Hook(h, id) == IF h = <<>> THEN <<>> ELSE injectId(h, id)
            ownPrefix == Hook(blk.STATEMENT_PREFIX, blk.id)
            ownSuffix == Hook(blk.STATEMENT_SUFFIX, blk.id)
            loopPrefix ==
                IF blk.loop.exists /\ ~blk.loop.suppressPrefixSuffix
                THEN Hook(blk.STATEMENT_PREFIX, blk.loop.id) ELSE <<>>
            Line(keyword) ==
                /\ out = Stmt(ownPrefix \o ownSuffix \o loopPrefix
                                  \o <<keyword, NL>>)
                /\ (blk.STATEMENT_PREFIX = <<>> /\ blk.STATEMENT_SUFFIX = <<>>)
                       => out.code = <<keyword, NL>>
        IN  CASE blk.FLOW = "BREAK" -> Line("break;")
              [] blk.FLOW = "CONTINUE" -> Line("continue;")
              [] OTHER -> out = Err("Unknown flow statement.")

\* C26 witness: a 'continue' inside a loop with both hooks set.
C26_Witness_ContinueWithHooks ==
    /\ blk.rule = "controls_flow_statements"
    /\ out.code = <<"trace(", "'", "b1", "'", ");", NL,
                    "done(", "'", "b1", "'", ");", NL,
                    "trace(", "'", "b0", "'", ");", NL,
                    "continue;", NL>>


\* The text a slot of controls_for yields: the child's, or the default.
ForOperand(slot, dflt) == OrElse(valueToCode(slot, ORDER_ASSIGNMENT), dflt)

\* controls_for on a block whose FROM, TO and BY are numeric literals.
NumericFor ==
    /\ blk.rule = "controls_for"
    /\ isNumber(ForOperand(blk.FROM, <<"0">>))
    /\ isNumber(ForOperand(blk.TO, <<"0">>))
    /\ isNumber(ForOperand(blk.BY_, <<"1">>))

\* The emitted for statement read back: where the variable starts, the
\* comparison and the bound of its condition, and what a pass adds to the
\* variable, numbers in tenths.
ForStatement(code) ==
    LET k1 == IndexOf(code, " = ")
        k2 == IndexOf(code, "; ")
        k3 == k2 + IndexOf(SubSeq(code, k2 + 1, Len(code)), "; ")
        kc == CHOOSE k \in (k2 + 1)..(k3 - 1) : code[k] \in {" <= ", " >= "}
        ke == IndexOf(code, ") {")
        ks == CHOOSE k \in (k3 + 1)..(ke - 1) :
                  code[k] \in {"++", "--", " += ", " -= "}
        amount == IF code[ks] \in {"++", "--"} THEN 10
                  ELSE NumberTenths(SubSeq(code, ks + 1, ke - 1))
    IN  [from |-> NumberTenths(SubSeq(code, k1 + 1, k2 - 1)),
         compare |-> code[kc],
         to |-> NumberTenths(SubSeq(code, kc + 1, k3 - 1)),
         short |-> code[ks] \in {"++", "--"},
         delta |-> IF code[ks] \in {"++", " += "} THEN amount
                   ELSE 0 - amount]

\* The value an int variable takes when a number, in tenths, is assigned to
\* it: the fraction is dropped.  CPP.init declares every variable 'int'.
ToInt(x) == IF x < 0 THEN 0 - ((0 - x) \div 10) * 10 ELSE (x \div 10) * 10

\* The loop, run with its variable at v, leaves after n more passes at most.
RECURSIVE LeavesWithin(_, _, _)
LeavesWithin(f, v, n) ==
    IF (IF f.compare = " <= " THEN v > f.to ELSE v < f.to) THEN TRUE
    ELSE IF n = 0 THEN FALSE
    ELSE LeavesWithin(f, ToInt(v + f.delta), n - 1)

\* The loop, run, leaves after MaxIterations passes at most; a loop whose
\* step is a whole number takes fewer over the literals of the blocks.
ReachesBound(f) == LeavesWithin(f, ToInt(f.from), MaxIterations)

Magnitude(n) == IF n < 0 THEN 0 - n ELSE n

\* C27: controls_for with numeric-literal FROM, TO and BY emits a single
\* for statement and no temporary bindings; it counts upward with '<=' iff
\* FROM <= TO and downward with '>=' otherwise, steps by |BY| ('++' or '--'
\* iff |BY| = 1) from FROM toward TO whatever the sign of BY, and the
\* emitted loop reaches its bound for every non-zero BY.
C27_NumericForLoop ==
    NumericFor =>
        LET from == NumberTenths(ForOperand(blk.FROM, <<"0">>))
            to == NumberTenths(ForOperand(blk.TO, <<"0">>))
            by == NumberTenths(ForOperand(blk.BY_, <<"1">>))
            Read(f) ==
                /\ f.from = from
                /\ f.to = to
                /\ f.compare = IF from <= to THEN " <= " ELSE " >= "
                /\ Magnitude(f.delta) = Magnitude(by)
                /\ f.short <=> Magnitude(by) = 10
                /\ by # 0 => (f.delta > 0 <=> from <= to)
                /\ by # 0 => ReachesBound(f)
        IN  /\ out.kind = "stmt"
            /\ Head(out.code) = "for ("
            /\ \A k \in 2..Len(out.code) :
                  out.code[k] \notin {"for (", "var ", "num "}
            /\ Read(ForStatement(out.code))



GetModes == {"GET", "GET_REMOVE", "REMOVE"}
GetWheres == {"FIRST", "LAST", "FROM_START", "FROM_END", "RANDOM"}

\* What C28 says lists_getIndex returns when its MODE and WHERE are taken to
\* be mode and where: a (text, UNARY_POSTFIX) pair for GET and GET_REMOVE,
\* statement text that ends with a newline for REMOVE, and the error for
\* every other combination.
GetIndexResult(mode, where) ==
    IF mode \in GetModes /\ where \in GetWheres
    THEN IF mode = "REMOVE"
         THEN /\ out.kind = "stmt"
              /\ out.code # <<>>
              /\ out.code[Len(out.code)] = NL
         ELSE /\ out.kind = "value"
              /\ out.code # <<>>
              /\ out.order = ORDER_UNARY_POSTFIX
    ELSE out = Err("Unhandled combination (lists_getIndex).")

\* C28 as stated: lists_getIndex returns a result for every combination of
\* MODE in {GET, GET_REMOVE, REMOVE} and WHERE in {FIRST, LAST, FROM_START,
\* FROM_END, RANDOM}, for bare and non-bare list operands alike, a (text,
\* UNARY_POSTFIX) pair for GET and GET_REMOVE and newline-terminated
\* statement text for REMOVE; every other combination raises 'Unhandled
\* combination (lists_getIndex).'.
C28_EveryOtherCombinationRaises ==
    blk.rule = "lists_getIndex" => GetIndexResult(blk.MODE, blk.WHERE)

\* C28 amended: the same, an absent MODE counting as GET and an absent WHERE
\* as FROM_START.
C28_ResultForEveryCombination ==
    blk.rule = "lists_getIndex" =>
        GetIndexResult(IF blk.MODE = "" THEN "GET" ELSE blk.MODE,
                       IF blk.WHERE = "" THEN "FROM_START" ELSE blk.WHERE)

\* C28 witness: a block without MODE and WHERE on a list operand that is
\* not a bare name returns a value.
C28_Witness_AbsentFields ==
    /\ blk.rule = "lists_getIndex"
    /\ blk.MODE = ""
    /\ blk.WHERE = ""
    /\ blk.VALUE.conn
    /\ ~IsWord(blk.VALUE.code)
    /\ out.kind = "value"


\* The keys under which the rules register helper functions.
HelperKeys ==
    {"colour_blend", "colour_random", "colour_rgb", "lists_get_from_end",
     "lists_get_random_item", "lists_get_sublist", "lists_remove_from_end",
     "lists_remove_random_item", "lists_sort", "math_isPrime", "math_max",
     "math_mean", "math_median", "math_min", "math_modes", "math_random_int",
     "math_random_item", "math_standard_deviation", "math_sum", "text_count",
     "text_get_from_end", "text_get_substring", "text_random_letter",
     "text_toTitleCase"}

\* The keys under which the rules register imports and includes.
ImportKeys ==
    {"import_dart_math", "import_dart_html", "include_cpp_cmath",
     "include_cpp_cstdlib", "include_cpp_numeric", "include_cpp_algorithm"}

\* C29: the key under which procedures_defreturn stores a procedure never
\* equals a helper-function key, an import or include key or the key
\* 'variables', and in a run no emission overwrites or writes an entry of
\* another kind: a procedure definition touches only procedure entries,
\* every other rule touches none of them; procedures_defreturn returns null
\* and no text.
C29_KeysApartByKind ==
    [][LET procedural ==
               blk'.rule \in {"procedures_defreturn", "procedures_defnoreturn"}
           OtherKeys == HelperKeys \cup ImportKeys \cup {"variables"}
           touched == {e \in definitions_ \cup definitions_' :
                          e \notin definitions_ \cap definitions_'}
       IN  EmissionStep =>
               /\ \A e \in touched : procedural <=> e.key \notin OtherKeys
               /\ procedural =>
                      /\ out' = Null
                      /\ \E e \in definitions_' : e.key \notin OtherKeys]_vars

\* C29 witness: a procedure named 'variables' is registered next to the
\* declaration of the variables.
C29_Witness_ProcedureNamedVariables ==
    /\ blk.rule = "procedures_defreturn"
    /\ blk.NAME = "variables"
    /\ Has(definitions_, "variables")
    /\ Has(definitions_, "%variables")


\* The text t with INDENT put at the start of each of its lines; atStart: t
\* begins at the start of a line.
RECURSIVE IndentLines(_, _)
IndentLines(t, atStart) ==
    IF t = <<>> THEN <<>>
    ELSE (IF atStart THEN <<INDENT>> ELSE <<>>) \o <<Head(t)>>
             \o IndentLines(Tail(t), Head(t) = NL)

\* The name the name table holds for an identifier.
NameIn(ndb, kind, id) ==
    (CHOOSE e \in ndb.db : e.kind = kind /\ e.id = id).name

====
